---- MODULE Spec2Model ----
(***************************************************************************)
(* Collection store and binder engine of magic-library                     *)
(* (backend/app/routers/collection.py, bulk.py): collection entries with   *)
(* their binder positions, the position-assignment policy of the add and   *)
(* import paths, and the binder page renderer.                             *)
(***************************************************************************)
EXTENDS Integers, Sequences, FiniteSets, TLC

----------------------------------------------------------------------------
(* Bounds of the model *)

\* entry ids (autoincrement primary key) handed out in one run
MaxId == 3
\* largest quantity an entry reaches
MaxQty == 2
\* rows of one import
MaxRows == 2
\* rows of one bulk reposition
MaxUpdates == 1
\* pages requested from the binder view
MaxPage == 3
\* largest position a caller supplies explicitly
FarPosition == 10
\* requests served in one run
MaxRequests == 3
\* entries of the binder whose pages are rendered
MaxPageEntries == 2
\* entries of the binder whose fill-row pages are rendered
MaxFillEntries == 6
\* entries in the store when the positions are consolidated
MaxMigrateEntries == 3

\* entries of the stores a bulk reposition is served on
MaxBatchEntries == 2

\* rows of one bulk reposition
MaxBatch == 2

\* container requests served from the initial hierarchy
MaxTreeRequests == 3

\* largest container id the hierarchy grows to
MaxContainerId == 5

----------------------------------------------------------------------------
(* Values *)

\* None / SQL NULL of the nullable integer columns (position, finish_id) and
\* of absent rows; no id, date or position of the model has this value
NULL == -1

\* '9999-12-31' of coalesce(Set.release_date, '9999-12-31')
MaxDate == 9999

\* containers.py 122, 174: the largest depth a write accepts
MaxDepth == 10

\* the authenticated user of every request, and another user
user == 1
OtherUser == 2

----------------------------------------------------------------------------
(* Catalog store (read-only) *)

\* cards: unique on (set_code, number)
Card == { [set_code |-> "AAA", number |-> "1", name |-> "Bolt"],
          [set_code |-> "BBB", number |-> "1", name |-> "Bolt"],
          [set_code |-> "CCC", number |-> "1", name |-> "Shock"],
          [set_code |-> "DDD", number |-> "1", name |-> "Shock"] }

\* sets: AAA is newer than BBB, DDD has no release date, CCC has no row
Set == { [code |-> "AAA", release_date |-> 2010],
         [code |-> "BBB", release_date |-> 1999],
         [code |-> "DDD", release_date |-> NULL] }

\* finishes: id 1 is 'foil'; NULL is the non-foil finish
Finish == { [id |-> 1, name |-> "foil"] }

\* container types of migrations 001 and 002
ContainerType == { [id |-> 1, name |-> "box"],
                   [id |-> 2, name |-> "file"],
                   [id |-> 3, name |-> "deck"] }

\* str.lower() / func.lower() on the names the model uses
Lower(s) ==
    CASE s = "English" -> "english"
      [] s = "Japanese" -> "japanese"
      [] s = "German" -> "german"
      [] s = "Foil" -> "foil"
      [] s = "File" -> "file"
      [] OTHER -> s

\* the two language tables a card data file can produce: with and without a
\* language named English
LanguageTables == { { [id |-> 1, name |-> "English"], [id |-> 2, name |-> "Japanese"] },
                    { [id |-> 1, name |-> "German"], [id |-> 2, name |-> "Japanese"] } }

----------------------------------------------------------------------------
(* State *)

VARIABLES
    entries,      \* collection_entries rows
    next_id,      \* next autoincrement id of collection_entries
    containers,   \* containers rows
    Language,     \* languages rows (fixed after Init)
    request,      \* the last request served
    response,     \* its response
    served,       \* number of requests served
    workers,      \* requests in progress side by side: each one's position in its handler
    next_container_id   \* next autoincrement id of containers

vars == <<entries, next_id, containers, Language, request, response, served, workers,
         next_container_id>>

\* db.query(Card).filter(set_code, number).first()
FindCard(set_code, number) ==
    { c \in Card : c.set_code = set_code /\ c.number = number }

\* the Card row joined to an entry
CardOf(e) == CHOOSE c \in Card : c.set_code = e.set_code /\ c.number = e.card_number

\* db.query(Container).filter(Container.id == id, Container.user_id == user.id)
OwnContainer(cs, id) == { c \in cs : c.id = id /\ c.user_id = user }

\* db.query(Container).filter(Container.id == id)
AnyContainer(cs, id) == { c \in cs : c.id = id }

\* a type check that accepts every container whose type row exists
IsAnyType(c) == \E t \in ContainerType : t.id = c.type_id

\* container_type and container_type.name.lower() == "file"
IsFile(c) == \E t \in ContainerType : t.id = c.type_id /\ Lower(t.name) = "file"

\* func.max(xs), a non-empty set of integers
Max(xs) == CHOOSE x \in xs : \A y \in xs : y <= x
\* variant: the number of positioned entries instead of the largest position
MaxPositionCount(es, container_id) ==
    Cardinality({ e \in es : e.container_id = container_id
                             /\ e.user_id = user
                             /\ e.position # NULL })

\* func.max(CollectionEntry.position) over a container, then (max_position or 0)
MaxPositionOr0(es, container_id) ==
    LET ps == { e.position : e \in { x \in es : x.container_id = container_id
                                                 /\ x.user_id = user
                                                 /\ x.position # NULL } }
    IN  IF ps = {} THEN 0 ELSE Max(ps)

\* an HTTPException: no store change
Error(es, nid, status, detail) ==
    [entries |-> es, next_id |-> nid,
     response |-> [status |-> status, detail |-> detail]]

\* the row a new CollectionEntry becomes at commit
NewEntry(nid, set_code, card_number, container_id, quantity, finish_id, language_id, position) ==
    [id |-> nid, set_code |-> set_code, card_number |-> card_number,
     container_id |-> container_id, quantity |-> quantity, finish_id |-> finish_id,
     language_id |-> language_id, user_id |-> user, position |-> position]

\* uq_collection_entry as the database enforces it: rows with a NULL finish_id
\* never conflict (NULLs are distinct in a UNIQUE constraint)
UniqueConstraintHolds(es) ==
    \A a, b \in es :
        (a.id # b.id /\ a.finish_id # NULL /\ b.finish_id # NULL)
        => ~(/\ a.set_code = b.set_code
             /\ a.card_number = b.card_number
             /\ a.container_id = b.container_id
             /\ a.finish_id = b.finish_id
             /\ a.language_id = b.language_id)

----------------------------------------------------------------------------
(* add_to_collection *)

\* data.set_code.upper()
Upper(s) ==
    CASE s = "aaa" -> "AAA"
      [] s = "ccc" -> "CCC"
      [] OTHER -> s

\* collection.py 73-98: the positions position_to_assign may end with; more than
\* one only when .first() may return same-name entries of different positions
AddPosition(es, container, card, position) ==
    IF IsFile(container) /\ position = NULL
    THEN LET existing_same_name ==
                 { e \in es : /\ e.container_id = container.id
                              /\ e.user_id = user
                              /\ e.position # NULL
                              /\ \E c \in Card : /\ c.set_code = e.set_code
                                                 /\ c.number = e.card_number
                                                 /\ c.name = card.name }
         IN  IF existing_same_name # {}
             THEN { e.position : e \in existing_same_name }
             ELSE { MaxPositionOr0(es, container.id) + 1 }
    ELSE { position }

\* the CollectionEntryResponse of an entry
EntryResponse(op, e) ==
    [op |-> op, status |-> 200, id |-> e.id, container_id |-> e.container_id,
     quantity |-> e.quantity, position |-> e.position]

\* a merge that also writes the position onto the existing entry
AddStoreRepositions(es, nid, data, set_code, position_to_assign) ==
    LET existing == { e \in es : /\ e.set_code = set_code
                                 /\ e.card_number = data.card_number
                                 /\ e.container_id = data.container_id
                                 /\ e.finish_id = data.finish_id
                                 /\ e.language_id = data.language_id
                                 /\ e.user_id = user }
    IN  IF existing # {}
        THEN { LET entry == [e EXCEPT !.quantity = e.quantity + data.quantity,
                                      !.position = position_to_assign]
               IN  [entries |-> (es \ {e}) \cup {entry}, next_id |-> nid,
                    response |-> EntryResponse("add_to_collection", entry)]
               : e \in existing }
        ELSE { LET entry == NewEntry(nid, set_code, data.card_number, data.container_id,
                                     data.quantity, data.finish_id, data.language_id,
                                     position_to_assign)
               IN  [entries |-> es \cup {entry}, next_id |-> nid + 1,
                    response |-> EntryResponse("add_to_collection", entry)] }

\* collection.py 100-148: merge into the exact variant or create the entry
AddStore(es, nid, data, set_code, position_to_assign) ==
    LET existing == { e \in es : /\ e.set_code = set_code
                                 /\ e.card_number = data.card_number
                                 /\ e.container_id = data.container_id
                                 /\ e.finish_id = data.finish_id
                                 /\ e.language_id = data.language_id
                                 /\ e.user_id = user }
    IN  IF existing # {}
        THEN { LET entry == [e EXCEPT !.quantity = e.quantity + data.quantity]
               IN  [entries |-> (es \ {e}) \cup {entry}, next_id |-> nid,
                    response |-> EntryResponse("add_to_collection", entry)]
               : e \in existing }
        ELSE { LET entry == NewEntry(nid, set_code, data.card_number, data.container_id,
                                     data.quantity, data.finish_id, data.language_id,
                                     position_to_assign)
               IN  [entries |-> es \cup {entry}, next_id |-> nid + 1,
                    response |-> EntryResponse("add_to_collection", entry)] }

\* collection.py 38-148 with the validator of CollectionEntryCreate: every
\* outcome of one request on the store (es, nid)
AddOutcomes(es, nid, cs, langs, data) ==
    LET card == FindCard(Upper(data.set_code), data.card_number)
        container == OwnContainer(cs, data.container_id)
    IN  IF data.quantity < 1
        THEN { Error(es, nid, 422, "Quantity must be at least 1") }
        ELSE IF card = {}
        THEN { Error(es, nid, 404, "Card not found") }
        ELSE IF container = {}
        THEN { Error(es, nid, 404, "Container not found") }
        ELSE IF ~ \E l \in langs : l.id = data.language_id
        THEN { Error(es, nid, 400, "Invalid language") }
        ELSE IF data.finish_id # NULL /\ ~ \E f \in Finish : f.id = data.finish_id
        THEN { Error(es, nid, 400, "Invalid finish") }
        ELSE UNION { AddStore(es, nid, data, Upper(data.set_code), p) :
                     p \in AddPosition(es, CHOOSE c \in container : TRUE,
                                       CHOOSE c \in card : TRUE, data.position) }

----------------------------------------------------------------------------
(* update_collection_entry, delete_collection_entry, move_collection_entry *)

\* collection.py 248-318: data.position is never read; a commit that breaks
\* uq_collection_entry raises and rolls back
UpdateOutcomes(es, nid, cs, langs, entry_id, data) ==
    LET found == { e \in es : e.id = entry_id /\ e.user_id = user }
    IN  IF found = {}
        THEN { Error(es, nid, 404, "Entry not found") }
        ELSE IF data.quantity # NULL /\ data.quantity < 1
        THEN { Error(es, nid, 400, "Quantity must be at least 1") }
        ELSE IF data.finish_id # NULL /\ ~ \E f \in Finish : f.id = data.finish_id
        THEN { Error(es, nid, 400, "Invalid finish") }
        ELSE IF data.language_id # NULL /\ ~ \E l \in langs : l.id = data.language_id
        THEN { Error(es, nid, 400, "Invalid language") }
        ELSE IF data.container_id # NULL /\ OwnContainer(cs, data.container_id) = {}
        THEN { Error(es, nid, 404, "Container not found") }
        ELSE LET old == CHOOSE e \in found : TRUE
                 entry == [old EXCEPT
                     !.quantity = IF data.quantity # NULL THEN data.quantity ELSE @,
                     !.finish_id = IF data.finish_id # NULL THEN data.finish_id ELSE @,
                     !.language_id = IF data.language_id # NULL THEN data.language_id ELSE @,
                     !.container_id = IF data.container_id # NULL THEN data.container_id ELSE @]
                 updated == (es \ {old}) \cup {entry}
             IN  IF UniqueConstraintHolds(updated)
                 THEN { [entries |-> updated, next_id |-> nid,
                         response |-> EntryResponse("update_collection_entry", entry)] }
                 ELSE { Error(es, nid, 500, "IntegrityError") }

\* collection.py 321-338
DeleteOutcomes(es, nid, entry_id) ==
    LET found == { e \in es : e.id = entry_id /\ e.user_id = user }
    IN  IF found = {}
        THEN { Error(es, nid, 404, "Entry not found") }
        ELSE { [entries |-> es \ found, next_id |-> nid,
                response |-> [op |-> "delete_collection_entry", status |-> 200,
                              id |-> entry_id]] }

\* the CollectionMoveResponse
MoveResponse(source_entry, source_remaining, target_entry) ==
    [op |-> "move_collection_entry", status |-> 200,
     source_entry_id |-> source_entry.id,
     source_remaining_quantity |-> source_remaining,
     target_entry_id |-> target_entry.id,
     target_quantity |-> target_entry.quantity]

\* variant: a partial move leaves the quantity of the source as it was
MoveOutcomesKeepsSource(es, nid, cs, entry_id, data) ==
    LET found == { e \in es : e.id = entry_id /\ e.user_id = user }
    IN  IF data.quantity < 1
        THEN { Error(es, nid, 422, "Quantity must be at least 1") }
        ELSE IF found = {}
        THEN { Error(es, nid, 404, "Entry not found") }
        ELSE LET source_entry == CHOOSE e \in found : TRUE
                 existing_target ==
                     { e \in es : /\ e.set_code = source_entry.set_code
                                  /\ e.card_number = source_entry.card_number
                                  /\ e.container_id = data.target_container_id
                                  /\ e.finish_id = source_entry.finish_id
                                  /\ e.language_id = source_entry.language_id
                                  /\ e.user_id = user }
                 source_remaining == source_entry.quantity - data.quantity
                 rest == IF data.quantity = source_entry.quantity
                         THEN es \ {source_entry}
                         ELSE es
             IN  IF data.quantity > source_entry.quantity
                 THEN { Error(es, nid, 400, "Cannot move") }
                 ELSE IF OwnContainer(cs, data.target_container_id) = {}
                 THEN { Error(es, nid, 404, "Target container not found") }
                 ELSE IF source_entry.container_id = data.target_container_id
                 THEN { Error(es, nid, 400, "Source and target containers are the same") }
                 ELSE IF existing_target # {}
                 THEN { LET target_entry == [t EXCEPT !.quantity = t.quantity + data.quantity]
                        IN  [entries |-> (rest \ {t}) \cup {target_entry}, next_id |-> nid,
                             response |-> MoveResponse(source_entry, source_remaining,
                                                       target_entry)]
                        : t \in existing_target }
                 ELSE { LET target_entry ==
                                NewEntry(nid, source_entry.set_code, source_entry.card_number,
                                         data.target_container_id, data.quantity,
                                         source_entry.finish_id, source_entry.language_id,
                                         NULL)
                        IN  [entries |-> rest \cup {target_entry}, next_id |-> nid + 1,
                             response |-> MoveResponse(source_entry, source_remaining,
                                                       target_entry)] }

\* collection.py 341-427 with the validator of CollectionMoveRequest; the new
\* target entry is built without a position
MoveOutcomes(es, nid, cs, entry_id, data) ==
    LET found == { e \in es : e.id = entry_id /\ e.user_id = user }
    IN  IF data.quantity < 1
        THEN { Error(es, nid, 422, "Quantity must be at least 1") }
        ELSE IF found = {}
        THEN { Error(es, nid, 404, "Entry not found") }
        ELSE LET source_entry == CHOOSE e \in found : TRUE
                 existing_target ==
                     { e \in es : /\ e.set_code = source_entry.set_code
                                  /\ e.card_number = source_entry.card_number
                                  /\ e.container_id = data.target_container_id
                                  /\ e.finish_id = source_entry.finish_id
                                  /\ e.language_id = source_entry.language_id
                                  /\ e.user_id = user }
                 source_remaining == source_entry.quantity - data.quantity
                 rest == IF data.quantity = source_entry.quantity
                         THEN es \ {source_entry}
                         ELSE (es \ {source_entry})
                              \cup {[source_entry EXCEPT !.quantity = source_remaining]}
             IN  IF data.quantity > source_entry.quantity
                 THEN { Error(es, nid, 400, "Cannot move") }
                 ELSE IF OwnContainer(cs, data.target_container_id) = {}
                 THEN { Error(es, nid, 404, "Target container not found") }
                 ELSE IF source_entry.container_id = data.target_container_id
                 THEN { Error(es, nid, 400, "Source and target containers are the same") }
                 ELSE IF existing_target # {}
                 THEN { LET target_entry == [t EXCEPT !.quantity = t.quantity + data.quantity]
                        IN  [entries |-> (rest \ {t}) \cup {target_entry}, next_id |-> nid,
                             response |-> MoveResponse(source_entry, source_remaining,
                                                       target_entry)]
                        : t \in existing_target }
                 ELSE { LET target_entry ==
                                NewEntry(nid, source_entry.set_code, source_entry.card_number,
                                         data.target_container_id, data.quantity,
                                         source_entry.finish_id, source_entry.language_id,
                                         NULL)
                        IN  [entries |-> rest \cup {target_entry}, next_id |-> nid + 1,
                             response |-> MoveResponse(source_entry, source_remaining,
                                                       target_entry)] }

----------------------------------------------------------------------------
(* update_binder_positions *)

RECURSIVE ApplyUpdatesFirstWins(_, _, _, _)
\* a loop that keeps the first row of an entry listed twice
ApplyUpdatesFirstWins(es, container_id, updates, updated) ==
    IF updates = << >>
    THEN [entries |-> es, updated |-> updated]
    ELSE LET update == updates[Len(updates)]
             entry == { e \in es : /\ e.id = update.entry_id
                                   /\ e.container_id = container_id
                                   /\ e.user_id = user }
         IN  IF entry # {}
             THEN ApplyUpdatesFirstWins(
                      (es \ entry)
                        \cup { [e EXCEPT !.position = update.position] : e \in entry },
                      container_id, SubSeq(updates, 1, Len(updates) - 1), updated + 1)
             ELSE ApplyUpdatesFirstWins(es, container_id,
                                        SubSeq(updates, 1, Len(updates) - 1), updated)

\* collection.py 655-664: the rows applied in order, counting the applied ones
RECURSIVE ApplyUpdates(_, _, _, _)
ApplyUpdates(es, container_id, updates, updated) ==
    IF updates = << >>
    THEN [entries |-> es, updated |-> updated]
    ELSE LET update == Head(updates)
             entry == { e \in es : /\ e.id = update.entry_id
                                   /\ e.container_id = container_id
                                   /\ e.user_id = user }
         IN  IF entry # {}
             THEN ApplyUpdates((es \ entry)
                                 \cup { [e EXCEPT !.position = update.position] : e \in entry },
                               container_id, Tail(updates), updated + 1)
             ELSE ApplyUpdates(es, container_id, Tail(updates), updated)

\* collection.py 642-668: the container is looked up without its owner and
\* without its type
RepositionOutcomes(es, nid, cs, container_id, updates) ==
    IF AnyContainer(cs, container_id) = {}
    THEN { Error(es, nid, 404, "Container not found") }
    ELSE LET r == ApplyUpdates(es, container_id, updates, 0)
         IN  { [entries |-> r.entries, next_id |-> nid,
                response |-> [op |-> "update_binder_positions", status |-> 200,
                              success |-> TRUE, updated_count |-> r.updated]] }

----------------------------------------------------------------------------
(* import_collection (rows of the simple format, already split into cells) *)

\* int(cell or 1): NULL stands for the ValueError of a cell that is no number
ParseQuantity(cell) ==
    CASE cell = "" -> 1
      [] cell = "0" -> 0
      [] cell = "1" -> 1
      [] cell = "2" -> 2
      [] OTHER -> NULL

\* bulk.py 68-75
find_language_id(name, langs) ==
    LET wanted == IF name = "" THEN "English" ELSE name
        language == { l \in langs : Lower(l.name) = Lower(wanted) }
    IN  IF language = {} THEN NULL ELSE (CHOOSE l \in language : TRUE).id

\* bulk.py 78-92
find_finish_id(name) ==
    IF Lower(name) \in {"", "no", "regular", "normal"}
    THEN NULL
    ELSE LET mapped == IF Lower(name) \in {"yes", "foil", "true", "1"} THEN "foil"
                       ELSE IF Lower(name) = "foil_etched" THEN "etched"
                       ELSE name
             finish == { f \in Finish : Lower(f.name) = Lower(mapped) }
         IN  IF finish = {} THEN NULL ELSE (CHOOSE f \in finish : TRUE).id

\* bulk.py 95-100: the cards .first() may return
find_card_by_name_and_set(name, set_code) ==
    { c \in Card : /\ Lower(c.name) = Lower(name)
                   /\ (set_code # "" => Upper(c.set_code) = Upper(set_code)) }

\* bulk.py 302-318: by set code and number, then by name and set, then by name
FindImportCard(row) ==
    LET by_number == IF row.set_code # "" /\ row.card_number # ""
                     THEN { c \in Card : /\ Upper(c.set_code) = Upper(row.set_code)
                                         /\ c.number = row.card_number }
                     ELSE {}
        by_set == IF row.set_code # ""
                  THEN find_card_by_name_and_set(row.card_name, row.set_code)
                  ELSE {}
    IN  IF by_number # {} THEN by_number
        ELSE IF by_set # {} THEN by_set
        ELSE find_card_by_name_and_set(row.card_name, "")
\* variant: an imported row always opens a new position
ImportPositionAlwaysNew(es, container_id, is_binder, card) ==
    IF is_binder THEN { MaxPositionOr0(es, container_id) + 1 } ELSE { NULL }

\* bulk.py 325-346: the positions a row's entry may get
ImportPosition(es, container_id, is_binder, card) ==
    IF is_binder
    THEN LET existing_same_name ==
                 { e \in es : /\ e.container_id = container_id
                              /\ e.user_id = user
                              /\ e.position # NULL
                              /\ \E c \in Card : /\ c.set_code = e.set_code
                                                 /\ c.number = e.card_number
                                                 /\ c.name = card.name }
         IN  IF existing_same_name # {}
             THEN { e.position : e \in existing_same_name }
             ELSE { MaxPositionOr0(es, container_id) + 1 }
    ELSE { NULL }

\* bulk.py 380: db.commit() writes the rows added to the session, in the order
\* of their db.add, and the database gives them their ids
RECURSIVE Flush(_)
Flush(st) ==
    IF st.pending = << >>
    THEN st
    ELSE Flush([st EXCEPT
             !.entries = @ \cup { [id |-> st.next_id] @@ Head(st.pending) },
             !.next_id = @ + 1,
             !.pending = Tail(@)])

\* the session of app.database inside the transaction of a request: a query
\* reads the rows the request has added so far
Autoflush(st) == Flush(st)

\* bulk.py 348-374: merge into the exact variant or add the entry to the session
ImportStore(st, container_id, card, quantity, finish_id, language_id, position) ==
    LET existing == { e \in st.entries : /\ e.set_code = card.set_code
                                         /\ e.card_number = card.number
                                         /\ e.container_id = container_id
                                         /\ e.finish_id = finish_id
                                         /\ e.language_id = language_id
                                         /\ e.user_id = user }
    IN  IF existing # {}
        THEN { [st EXCEPT
                   !.entries = (@ \ {e}) \cup {[e EXCEPT !.quantity = e.quantity + quantity]},
                   !.warnings = @ + 1,
                   !.imported = @ + 1]
               : e \in existing }
        ELSE { [st EXCEPT
                   !.pending = Append(@, [set_code |-> card.set_code,
                                          card_number |-> card.number,
                                          container_id |-> container_id,
                                          quantity |-> quantity,
                                          finish_id |-> finish_id,
                                          language_id |-> language_id,
                                          user_id |-> user,
                                          position |-> position]),
                   !.imported = @ + 1] }

\* bulk.py 262-378: one data row
ImportRow(st0, container_id, is_binder, langs, row) ==
    LET st == Autoflush(st0)
        english == { l \in langs : Lower(l.name) = "english" }
        default_language_id == IF english # {} THEN (CHOOSE l \in english : TRUE).id ELSE 1
        quantity == ParseQuantity(row.quantity)
        finish_id == find_finish_id(row.foil)
        found_language == find_language_id(row.language, langs)
        language_id == IF found_language # NULL THEN found_language ELSE default_language_id
        card == FindImportCard(row)
    IN  IF row.card_name = "" /\ row.set_code = "" /\ row.card_number = ""
           /\ row.quantity = "" /\ row.foil = "" /\ row.language = ""
        THEN { st }
        ELSE IF quantity = NULL
        THEN { [st EXCEPT !.error_count = @ + 1] }
        ELSE IF card = {}
        THEN { [st EXCEPT !.error_count = @ + 1] }
        ELSE UNION { UNION { ImportStore(st, container_id, c, quantity, finish_id,
                                         language_id, p)
                             : p \in ImportPosition(st.entries, container_id, is_binder, c) }
                     : c \in card }

RECURSIVE ImportRows(_, _, _, _, _)
ImportRows(st, container_id, is_binder, langs, rows) ==
    IF rows = << >>
    THEN { st }
    ELSE UNION { ImportRows(s, container_id, is_binder, langs, Tail(rows))
                 : s \in ImportRow(st, container_id, is_binder, langs, Head(rows)) }

\* bulk.py 215-389: rows are the data rows below the header
ImportOutcomes(es, nid, cs, langs, container_id, rows) ==
    LET container == OwnContainer(cs, container_id)
    IN  IF container = {}
        THEN { Error(es, nid, 404, "Container not found") }
        ELSE IF rows = << >>
        THEN { Error(es, nid, 400, "CSV must have at least a header and one data row") }
        ELSE { LET done == Flush(s)
               IN  [entries |-> done.entries, next_id |-> done.next_id,
                    response |-> [op |-> "import_collection", status |-> 200,
                                  success |-> (done.error_count = 0),
                                  imported_count |-> done.imported,
                                  error_count |-> done.error_count,
                                  warnings |-> done.warnings]]
               : s \in ImportRows([entries |-> es, next_id |-> nid, pending |-> << >>,
                                   imported |-> 0, error_count |-> 0, warnings |-> 0],
                                  container_id, IsFile(CHOOSE c \in container : TRUE),
                                  langs, rows) }

----------------------------------------------------------------------------
(* Representative selection and the binder page renderer *)

\* db.query(Language).filter(func.lower(Language.name) == 'english').first()
EnglishLangId(langs) ==
    LET english_lang == { l \in langs : Lower(l.name) = "english" }
    IN  IF english_lang = {} THEN NULL ELSE (CHOOSE l \in english_lang : TRUE).id

\* Set.release_date of the outer join of an entry to sets: NULL without a row
JoinedReleaseDate(e) ==
    LET rows == { st \in Set : st.code = e.set_code }
    IN  IF rows = {} THEN NULL ELSE (CHOOSE st \in rows : TRUE).release_date

\* func.coalesce(Set.release_date, '9999-12-31')
CoalescedReleaseDate(e) ==
    IF JoinedReleaseDate(e) = NULL THEN MaxDate ELSE JoinedReleaseDate(e)

\* the order_by of collection.py 516-522, 576-582 and 714-720: without an
\* English language the first key is the entry id
OrderKey(e, english_lang_id) ==
    << IF english_lang_id # NULL
       THEN (IF e.language_id # english_lang_id THEN 1 ELSE 0)
       ELSE e.id,
       CoalescedReleaseDate(e),
       e.id >>

\* ascending comparison of two order_by keys
KeyLess(a, b) ==
    \/ a[1] < b[1]
    \/ a[1] = b[1] /\ a[2] < b[2]
    \/ a[1] = b[1] /\ a[2] = b[2] /\ a[3] < b[3]

\* the rows of a query in its order_by order
RECURSIVE OrderBy(_, _)
OrderBy(rows, english_lang_id) ==
    IF rows = {}
    THEN << >>
    ELSE LET first == CHOOSE e \in rows :
                          \A o \in rows \ {e} :
                              KeyLess(OrderKey(e, english_lang_id), OrderKey(o, english_lang_id))
         IN  << first >> \o OrderBy(rows \ {first}, english_lang_id)

\* .limit(n)
Limit(q, n) == IF Len(q) <= n THEN q ELSE SubSeq(q, 1, n)

\* the entries of a container at a position
EntriesAt(es, container_id, pos) ==
    { e \in es : e.container_id = container_id /\ e.user_id = user /\ e.position = pos }

\* the name columns of a slot
CardName(e) ==
    LET card == FindCard(e.set_code, e.card_number)
    IN  IF card = {} THEN "Unknown" ELSE (CHOOSE c \in card : TRUE).name

FinishName(e) ==
    LET finish == { f \in Finish : f.id = e.finish_id }
    IN  IF e.finish_id = NULL \/ finish = {} THEN "None" ELSE (CHOOSE f \in finish : TRUE).name

LanguageName(e, langs) ==
    LET language == { l \in langs : l.id = e.language_id }
    IN  IF language = {} THEN "Unknown" ELSE (CHOOSE l \in language : TRUE).name

\* BinderSlot(position=pos, is_empty=True)
EmptySlot(pos) ==
    [position |-> pos, entry_id |-> NULL, set_code |-> "None", card_number |-> "None",
     card_name |-> "None", quantity |-> 0, finish_name |-> "None",
     language_name |-> "None", is_empty |-> TRUE, overflow_count |-> NULL]

\* a filled BinderSlot
FilledSlot(pos, entry, langs, overflow_count) ==
    [position |-> pos, entry_id |-> entry.id, set_code |-> entry.set_code,
     card_number |-> entry.card_number, card_name |-> CardName(entry),
     quantity |-> entry.quantity, finish_name |-> FinishName(entry),
     language_name |-> LanguageName(entry, langs), is_empty |-> FALSE,
     overflow_count |-> overflow_count]

\* distinct non-null positions of a container
DistinctPositions(es, container_id) ==
    { e.position : e \in { x \in es : /\ x.container_id = container_id
                                      /\ x.user_id = user
                                      /\ x.position # NULL } }

\* collection.py 505-542: up to 4 slots for each position, in position order
RECURSIVE ExpandedSlots(_, _, _, _, _)
ExpandedSlots(es, container_id, positions, langs, english_lang_id) ==
    IF positions = {}
    THEN << >>
    ELSE LET pos == CHOOSE p \in positions : \A q \in positions : p <= q
             entries_at_pos == Limit(OrderBy(EntriesAt(es, container_id, pos),
                                             english_lang_id), 4)
         IN  [ i \in 1 .. Len(entries_at_pos) |->
                   FilledSlot(pos, entries_at_pos[i], langs, NULL) ]
             \o ExpandedSlots(es, container_id, positions \ {pos}, langs, english_lang_id)

\* variant: the slice starts one page late
FillRowSlotsNextPage(all_expanded_slots, page, slots_per_page) ==
    LET start_idx == page * slots_per_page
        end_idx == start_idx + slots_per_page
        last == IF Len(all_expanded_slots) < end_idx THEN Len(all_expanded_slots)
                ELSE end_idx
        slots == IF start_idx >= last THEN << >>
                 ELSE SubSeq(all_expanded_slots, start_idx + 1, last)
    IN  slots \o [ i \in 1 .. (slots_per_page - Len(slots)) |-> EmptySlot(0) ]

\* collection.py 544-555: the slice of the page, padded with empty slots
FillRowSlots(all_expanded_slots, page, slots_per_page) ==
    LET start_idx == (page - 1) * slots_per_page
        end_idx == start_idx + slots_per_page
        last == IF Len(all_expanded_slots) < end_idx THEN Len(all_expanded_slots)
                ELSE end_idx
        slots == IF start_idx >= last THEN << >>
                 ELSE SubSeq(all_expanded_slots, start_idx + 1, last)
    IN  slots \o [ i \in 1 .. (slots_per_page - Len(slots)) |-> EmptySlot(0) ]

\* variant: the representative is the entry of the lowest id
NormalSlotLowestId(es, container_id, pos, langs, english_lang_id) ==
    IF pos \in DistinctPositions(es, container_id)
    THEN LET at == EntriesAt(es, container_id, pos)
             total_at_pos == Cardinality(at)
         IN  FilledSlot(pos, CHOOSE e \in at : \A o \in at : e.id <= o.id, langs,
                        IF total_at_pos > 1 THEN total_at_pos - 1 ELSE NULL)
    ELSE EmptySlot(pos)

\* collection.py 566-614: the slot of one position of the page window
NormalSlot(es, container_id, pos, langs, english_lang_id) ==
    IF pos \in DistinctPositions(es, container_id)
    THEN LET ranked == OrderBy(EntriesAt(es, container_id, pos), english_lang_id)
             total_at_pos == Cardinality(EntriesAt(es, container_id, pos))
         IN  IF ranked # << >>
             THEN FilledSlot(pos, ranked[1], langs,
                             IF total_at_pos > 1 THEN total_at_pos - 1 ELSE NULL)
             ELSE EmptySlot(pos)
    ELSE EmptySlot(pos)

\* collection.py 482-484: rows = 2 if columns == 2 else 3
SlotsPerPage(columns) == columns * (IF columns = 2 THEN 2 ELSE 3)

\* variant: the quotient rounded down
TotalPagesFloor(n, slots_per_page) ==
    LET pages == n \div slots_per_page
    IN  IF pages > 1 THEN pages ELSE 1

\* collection.py 546 and 563: max(1, (n + slots_per_page - 1) // slots_per_page)
TotalPages(n, slots_per_page) ==
    LET pages == (n + slots_per_page - 1) \div slots_per_page
    IN  IF pages > 1 THEN pages ELSE 1

\* collection.py 559: the first position of the page window
StartPosition(page, slots_per_page) == (page - 1) * slots_per_page + 1

\* collection.py 458-625
BinderPage(es, cs, langs, container_id, page) ==
    LET found == AnyContainer(cs, container_id)
    IN  IF found = {}
        THEN [status |-> 404, detail |-> "Container not found"]
        ELSE IF ~ IsFile(CHOOSE c \in found : TRUE)
        THEN [status |-> 400,
              detail |-> "Binder view is only available for 'file' containers"]
        ELSE LET container == CHOOSE c \in found : TRUE
                 columns == IF container.binder_columns = 0 THEN 3
                            ELSE container.binder_columns
                 fill_row_mode == container.binder_fill_row
                 slots_per_page == SlotsPerPage(columns)
                 english_lang_id == EnglishLangId(langs)
                 distinct_positions == DistinctPositions(es, container_id)
                 max_position == IF distinct_positions # {} THEN Max(distinct_positions)
                                 ELSE 0
                 all_expanded_slots == ExpandedSlots(es, container_id, distinct_positions,
                                                     langs, english_lang_id)
                 start_position == StartPosition(page, slots_per_page)
             IN  [op |-> "get_binder_page", status |-> 200,
                  container_id |-> container_id, page |-> page,
                  total_pages |->
                      IF fill_row_mode
                      THEN TotalPages(Len(all_expanded_slots), slots_per_page)
                      ELSE TotalPages(max_position, slots_per_page),
                  slots |->
                      IF fill_row_mode
                      THEN FillRowSlots(all_expanded_slots, page, slots_per_page)
                      ELSE [ i \in 1 .. slots_per_page |->
                                 NormalSlot(es, container_id, start_position + i - 1,
                                            langs, english_lang_id) ],
                  max_position |-> max_position,
                  binder_columns |-> columns,
                  binder_fill_row |-> fill_row_mode]

\* collection.py 691-760
EntriesAtPosition(es, cs, langs, container_id, position) ==
    LET found == AnyContainer(cs, container_id)
        ranked == OrderBy(EntriesAt(es, container_id, position), EnglishLangId(langs))
    IN  IF found = {}
        THEN [status |-> 404, detail |-> "Container not found"]
        ELSE IF ranked = << >>
        THEN [status |-> 404, detail |-> "No entries at this position"]
        ELSE [op |-> "get_entries_at_position", status |-> 200,
              position |-> position,
              card_name |-> CardName(ranked[1]),
              entries |-> [ i \in 1 .. Len(ranked) |->
                              [entry_id |-> ranked[i].id,
                               set_code |-> ranked[i].set_code,
                               card_number |-> ranked[i].card_number,
                               card_name |-> CardName(ranked[i]),
                               quantity |-> ranked[i].quantity,
                               release_date |-> JoinedReleaseDate(ranked[i])] ],
              total_quantity |-> LET RECURSIVE Sum(_)
                                     Sum(i) == IF i = 0 THEN 0
                                               ELSE ranked[i].quantity + Sum(i - 1)
                                 IN  Sum(Len(ranked))]

----------------------------------------------------------------------------
(* Requests *)

\* positions a caller supplies
Positions == { NULL, FarPosition }

\* CollectionEntryCreate bodies: the valid ones, and one for each rejection
AddRequests ==
    [ set_code : {"aaa", "BBB", "CCC"}, card_number : {"1"}, container_id : {1, 2},
      quantity : {1}, finish_id : {NULL, 1}, language_id : {1}, position : Positions ]
    \cup
    { [set_code |-> "aaa", card_number |-> "1", container_id |-> 1, quantity |-> 0,
       finish_id |-> NULL, language_id |-> 1, position |-> NULL],
      [set_code |-> "ZZZ", card_number |-> "1", container_id |-> 1, quantity |-> 1,
       finish_id |-> NULL, language_id |-> 1, position |-> NULL],
      [set_code |-> "aaa", card_number |-> "1", container_id |-> 3, quantity |-> 1,
       finish_id |-> NULL, language_id |-> 1, position |-> NULL],
      [set_code |-> "aaa", card_number |-> "1", container_id |-> 1, quantity |-> 1,
       finish_id |-> NULL, language_id |-> 9, position |-> NULL],
      [set_code |-> "aaa", card_number |-> "1", container_id |-> 1, quantity |-> 1,
       finish_id |-> 9, language_id |-> 1, position |-> NULL] }

\* CollectionEntryUpdate bodies
UpdateRequests ==
    [ quantity : {NULL, MaxQty}, finish_id : {NULL, 1}, language_id : {NULL},
      container_id : {NULL, 1, 2} ]
    \cup
    { [quantity |-> 0, finish_id |-> NULL, language_id |-> NULL, container_id |-> NULL],
      [quantity |-> NULL, finish_id |-> 9, language_id |-> NULL, container_id |-> NULL],
      [quantity |-> NULL, finish_id |-> NULL, language_id |-> 9, container_id |-> NULL],
      [quantity |-> NULL, finish_id |-> NULL, language_id |-> NULL, container_id |-> 3] }

\* CollectionMoveRequest bodies
MoveRequests == [ quantity : 0 .. MaxQty, target_container_id : {1, 2, 3} ]

\* data rows of an import
ImportRowValues ==
    [ card_name : {""}, set_code : {"AAA", "BBB", "CCC"}, card_number : {"1"},
      quantity : {""}, foil : {""}, language : {""} ]
    \cup
    { [card_name |-> "", set_code |-> "aaa", card_number |-> "1", quantity |-> "1",
       foil |-> "Foil", language |-> "english"],
      [card_name |-> "", set_code |-> "", card_number |-> "", quantity |-> "",
       foil |-> "", language |-> ""],
      [card_name |-> "bolt", set_code |-> "", card_number |-> "", quantity |-> "x",
       foil |-> "", language |-> ""],
      [card_name |-> "Nothing", set_code |-> "", card_number |-> "", quantity |-> "1",
       foil |-> "", language |-> "English"] }

\* sequences of at most n elements of S
RECURSIVE SeqsUpTo(_, _)
SeqsUpTo(S, n) ==
    IF n = 0 THEN { << >> }
    ELSE LET shorter == SeqsUpTo(S, n - 1)
         IN  shorter \cup { Append(q, x) : q \in shorter, x \in S }

\* ids a request may name
EntryIds == 1 .. MaxId

\* the store stays within the bounds of the model
WithinBounds(o) ==
    /\ o.next_id <= MaxId + 1
    /\ \A e \in o.entries : e.quantity <= MaxQty

\* the store and the response become those of an outcome
Commit(o, req) ==
    /\ WithinBounds(o)
    /\ served' = served + 1
    /\ entries' = o.entries
    /\ next_id' = o.next_id
    /\ response' = o.response
    /\ request' = req
    /\ UNCHANGED <<containers, Language, workers, next_container_id>>

----------------------------------------------------------------------------
(* Actions: one request served to completion *)

add_to_collection ==
    /\ served < MaxRequests
    /\ \E data \in AddRequests :
        \E o \in AddOutcomes(entries, next_id, containers, Language, data) :
            Commit(o, [op |-> "add_to_collection", position |-> data.position])

update_collection_entry ==
    /\ served < MaxRequests
    /\ \E entry_id \in EntryIds, data \in UpdateRequests :
        \E o \in UpdateOutcomes(entries, next_id, containers, Language, entry_id, data) :
            Commit(o, [op |-> "update_collection_entry", container_id |-> data.container_id])

delete_collection_entry ==
    /\ served < MaxRequests
    /\ \E entry_id \in EntryIds :
        \E o \in DeleteOutcomes(entries, next_id, entry_id) :
            Commit(o, [op |-> "delete_collection_entry"])

move_collection_entry ==
    /\ served < MaxRequests
    /\ \E entry_id \in EntryIds, data \in MoveRequests :
        \E o \in MoveOutcomes(entries, next_id, containers, entry_id, data) :
            Commit(o, [op |-> "move_collection_entry", quantity |-> data.quantity])

import_collection ==
    /\ served < MaxRequests
    /\ \E container_id \in {1, 2, 3} :
       \E rows \in IF container_id = 3 THEN { << >> }
                   ELSE SeqsUpTo(ImportRowValues, MaxRows) :
        \E o \in ImportOutcomes(entries, next_id, containers, Language, container_id, rows) :
            Commit(o, [op |-> "import_collection", container_id |-> container_id])

update_binder_positions ==
    /\ served < MaxRequests
    /\ \E container_id \in {1, 2, 9},
       updates \in SeqsUpTo([entry_id : EntryIds, position : Positions], MaxUpdates) :
        \E o \in RepositionOutcomes(entries, next_id, containers, container_id, updates) :
            Commit(o, [op |-> "update_binder_positions", container_id |-> container_id])

----------------------------------------------------------------------------
(* Specification of the collection store *)

\* a binder and a box of the user, and a binder of another user
InitContainers ==
    { [id |-> 1, type_id |-> 2, parent_id |-> NULL, depth |-> 0, user_id |-> user,
       binder_columns |-> 3, binder_fill_row |-> FALSE],
      [id |-> 2, type_id |-> 1, parent_id |-> NULL, depth |-> 0, user_id |-> user,
       binder_columns |-> 3, binder_fill_row |-> FALSE],
      [id |-> 3, type_id |-> 2, parent_id |-> NULL, depth |-> 0, user_id |-> OtherUser,
       binder_columns |-> 3, binder_fill_row |-> FALSE] }

EnglishTable == { [id |-> 1, name |-> "English"], [id |-> 2, name |-> "Japanese"] }

Init ==
    /\ entries = {}
    /\ next_id = 1
    /\ containers = InitContainers
    /\ Language = EnglishTable
    /\ request = [op |-> "none"]
    /\ response = [status |-> 0]
    /\ served = 0
    /\ workers = << >>
    /\ next_container_id = Cardinality(InitContainers) + 1

Next ==
    \/ add_to_collection
    \/ update_collection_entry
    \/ delete_collection_entry
    \/ move_collection_entry
    \/ import_collection
    \/ update_binder_positions

Spec == Init /\ [][Next]_vars

----------------------------------------------------------------------------
(* Specification of the insert paths alone: adds without position, imports *)

\* add_to_collection of a body without a position
add_to_collection_auto ==
    /\ served < MaxRequests
    /\ \E data \in { d \in AddRequests : d.position = NULL } :
        \E o \in AddOutcomes(entries, next_id, containers, Language, data) :
            Commit(o, [op |-> "add_to_collection", position |-> data.position])

NextInsert ==
    \/ add_to_collection_auto
    \/ import_collection

SpecInsert == Init /\ [][NextInsert]_vars

----------------------------------------------------------------------------
(* Specification of the binder view: the readers on every small binder *)

\* the variants a rendered binder holds, each with its position
PageVariants ==
    [ set_code : {"AAA", "BBB", "CCC", "DDD"}, language_id : {1, 2},
      position : {NULL, 1, FarPosition} ]

\* the binder entries of a sequence of variants, ids in insertion order
PageEntries(q) ==
    { NewEntry(i, q[i].set_code, "1", 1, 1, NULL, q[i].language_id, q[i].position)
      : i \in 1 .. Len(q) }

\* the binder with its view settings, beside the other containers
PageContainers(columns, fill_row) ==
    { IF c.id = 1
      THEN [c EXCEPT !.binder_columns = columns, !.binder_fill_row = fill_row]
      ELSE c : c \in InitContainers }

InitPage ==
    /\ \E q \in SeqsUpTo(PageVariants, MaxPageEntries) :
           /\ \A i, j \in 1 .. Len(q) :
                  i # j => (q[i].set_code # q[j].set_code
                            \/ q[i].language_id # q[j].language_id)
           /\ entries = PageEntries(q)
           /\ next_id = Len(q) + 1
    /\ \E columns \in {2, 3, 4}, fill_row \in BOOLEAN :
           containers = PageContainers(columns, fill_row)
    /\ Language \in LanguageTables
    /\ request = [op |-> "none"]
    /\ response = [status |-> 0]
    /\ served = 0
    /\ workers = << >>
    /\ next_container_id = Cardinality(InitContainers) + 1

get_binder_page ==
    \E container_id \in {1, 2, 9}, page \in 1 .. MaxPage :
        /\ response' = BinderPage(entries, containers, Language, container_id, page)
        /\ request' = [op |-> "get_binder_page", container_id |-> container_id,
                       page |-> page]
        /\ UNCHANGED <<entries, next_id, containers, Language, served, workers,
                       next_container_id>>

get_entries_at_position ==
    \E container_id \in {1, 9}, position \in {1, 2, FarPosition} :
        /\ response' = EntriesAtPosition(entries, containers, Language, container_id,
                                         position)
        /\ request' = [op |-> "get_entries_at_position", container_id |-> container_id,
                       position |-> position]
        /\ UNCHANGED <<entries, next_id, containers, Language, served, workers,
                       next_container_id>>

NextPage ==
    \/ get_binder_page
    \/ get_entries_at_position

SpecPage == InitPage /\ [][NextPage]_vars

----------------------------------------------------------------------------
(* Specification of the readers over a binder with crowded positions *)

\* set codes of the printings in the binder, in insertion order
FillSetCodes == << "AAA", "BBB", "CCC", "DDD" >>

\* the i-th entry inserted: printings in pairs of the two languages, so that
\* neither the ids nor the release dates follow the ranking
FillVariant(i) ==
    [set_code |-> FillSetCodes[(((i - 1) \div 2) % 4) + 1],
     language_id |-> ((i - 1) % 2) + 1]

\* positions of the entries: outside the view, or one of two positions
FillPositions == { NULL, 1, 2 }

InitFill ==
    /\ \E pos \in [1 .. MaxFillEntries -> FillPositions] :
           entries = { NewEntry(i, FillVariant(i).set_code, "1", 1, 1, NULL,
                                FillVariant(i).language_id, pos[i])
                       : i \in 1 .. MaxFillEntries }
    /\ next_id = MaxFillEntries + 1
    /\ \E columns \in {2, 3, 4}, fill_row \in BOOLEAN :
           containers = PageContainers(columns, fill_row)
    /\ Language \in LanguageTables
    /\ request = [op |-> "none"]
    /\ response = [status |-> 0]
    /\ served = 0
    /\ workers = << >>
    /\ next_container_id = Cardinality(InitContainers) + 1

SpecFill == InitFill /\ [][NextPage]_vars

----------------------------------------------------------------------------
(* Migration 005: consolidation of the binder positions by card name *)

\* ORDER BY c.name over the names of the catalog
NameOrder(name) ==
    CASE name = "Bolt" -> 1
      [] name = "Shock" -> 2
      [] OTHER -> 3

\* variant: the rows come in insertion order
ConsolidationKeyById(e, langs) == << 0, 0, 0, e.id >>

\* 005 lines 98-101: the ORDER BY key of an entry; the CASE yields 1 for every
\* entry when the subquery finds no English language
ConsolidationKey(e, langs) ==
    << NameOrder(CardName(e)),
       IF EnglishLangId(langs) # NULL /\ e.language_id = EnglishLangId(langs) THEN 0 ELSE 1,
       CoalescedReleaseDate(e),
       e.id >>

\* ascending comparison of two ORDER BY keys
ConsolidationKeyLess(a, b) ==
    \/ a[1] < b[1]
    \/ a[1] = b[1] /\ a[2] < b[2]
    \/ a[1] = b[1] /\ a[2] = b[2] /\ a[3] < b[3]
    \/ a[1] = b[1] /\ a[2] = b[2] /\ a[3] = b[3] /\ a[4] < b[4]

\* 005 lines 91-104: the entries of a container that join a card, in order
RECURSIVE ConsolidationRows(_, _)
ConsolidationRows(rows, langs) ==
    IF rows = {}
    THEN << >>
    ELSE LET first == CHOOSE e \in rows :
                          \A o \in rows \ {e} :
                              ConsolidationKeyLess(ConsolidationKey(e, langs),
                                                   ConsolidationKey(o, langs))
         IN  << first >> \o ConsolidationRows(rows \ {first}, langs)

\* 005 lines 107-121: the walk over the rows; card_positions maps the names
\* seen so far to their positions
RECURSIVE ConsolidationWalk(_, _, _, _)
ConsolidationWalk(es, rows, card_positions, next_position) ==
    IF rows = << >>
    THEN es
    ELSE LET entry == Head(rows)
             card_name == CardName(entry)
             seen == \E cp \in card_positions : cp.name = card_name
             new_position == IF seen
                             THEN (CHOOSE cp \in card_positions : cp.name = card_name).position
                             ELSE next_position
             stored == CHOOSE e \in es : e.id = entry.id
         IN  ConsolidationWalk((es \ {stored}) \cup {[stored EXCEPT !.position = new_position]},
                               Tail(rows),
                               IF seen THEN card_positions
                               ELSE card_positions \cup {[name |-> card_name,
                                                          position |-> next_position]},
                               IF seen THEN next_position ELSE next_position + 1)

\* 005 lines 75-121: every container of the 'file' type, one after the other
RECURSIVE Consolidate(_, _, _)
Consolidate(es, file_containers, langs) ==
    IF file_containers = {}
    THEN es
    ELSE LET container == CHOOSE c \in file_containers : TRUE
             rows == ConsolidationRows({ e \in es : /\ e.container_id = container.id
                                                    /\ FindCard(e.set_code, e.card_number) # {} },
                                       langs)
         IN  Consolidate(ConsolidationWalk(es, rows, {}, 1),
                         file_containers \ {container}, langs)

\* entries in the store before the migration: any printings, in either
\* language, in the binder or in the box, with any position
MigrateVariants ==
    [ set_code : {"AAA", "BBB", "CCC"}, language_id : {1, 2},
      container_id : {1, 2}, position : {NULL, 1, FarPosition} ]

\* the entries of n variants, ids in insertion order
MigrateEntries(q, n) ==
    { NewEntry(i, q[i].set_code, "1", q[i].container_id, 1, NULL, q[i].language_id,
               q[i].position)
      : i \in 1 .. n }

InitMigrate ==
    /\ \E n \in 0 .. MaxMigrateEntries :
       \E q \in [1 .. n -> MigrateVariants] :
           /\ \A i, j \in 1 .. n :
                  i # j => (\/ q[i].set_code # q[j].set_code
                            \/ q[i].language_id # q[j].language_id
                            \/ q[i].container_id # q[j].container_id)
           /\ entries = MigrateEntries(q, n)
           /\ next_id = n + 1
    /\ containers = InitContainers
    /\ Language \in LanguageTables
    /\ request = [op |-> "none"]
    /\ response = [status |-> 0]
    /\ served = 0
    /\ workers = << >>
    /\ next_container_id = Cardinality(InitContainers) + 1

\* 005 upgrade(): runs once
upgrade ==
    /\ served = 0
    /\ entries' = Consolidate(entries, { c \in containers : IsFile(c) }, Language)
    /\ request' = [op |-> "upgrade"]
    /\ served' = 1
    /\ UNCHANGED <<next_id, containers, Language, response, workers, next_container_id>>

NextMigrate == upgrade

SpecMigrate == InitMigrate /\ [][NextMigrate]_vars

----------------------------------------------------------------------------
(* Two add_to_collection requests served side by side *)

\* FastAPI runs the handlers (plain def) on a thread pool, each with its own
\* session; the handler takes no lock and no SELECT ... FOR UPDATE
Workers == {1, 2}

\* the rows a statement of one session reads: the rows the other sessions
\* have committed by then
Visible(es) == es

\* CollectionEntryCreate bodies of the requests served side by side
RaceRequests ==
    [ set_code : {"AAA", "BBB", "CCC"}, card_number : {"1"}, container_id : {1},
      quantity : {1}, finish_id : {NULL, 1}, language_id : {1}, position : {NULL} ]

\* the stores the two requests start from
RaceStores ==
    { {},
      { NewEntry(1, "DDD", "1", 1, 1, NULL, 1, 1) } }

\* a request not yet received
Idle ==
    [pc |-> "validate", data |-> [set_code |-> "", card_number |-> "", container_id |-> 0,
                                  quantity |-> 0, finish_id |-> NULL, language_id |-> 0,
                                  position |-> NULL],
     name |-> "", had_group |-> FALSE, position_to_assign |-> NULL,
     existing |-> NULL, quantity |-> 0, status |-> 0]

InitRace ==
    /\ entries \in RaceStores
    /\ next_id = Cardinality(entries) + 1
    /\ containers = InitContainers
    /\ Language = EnglishTable
    /\ request = [op |-> "none"]
    /\ response = [status |-> 0]
    /\ served = 0
    /\ workers = [w \in Workers |-> Idle]
    /\ next_container_id = Cardinality(InitContainers) + 1

\* collection.py 45-71: the card, container, language and finish lookups
add_validate ==
    \E w \in Workers :
        /\ workers[w].pc = "validate"
        /\ \E data \in RaceRequests :
            LET card == FindCard(Upper(data.set_code), data.card_number)
                container == OwnContainer(containers, data.container_id)
                ok == /\ card # {}
                      /\ container # {}
                      /\ \E l \in Language : l.id = data.language_id
                      /\ data.finish_id # NULL => \E f \in Finish : f.id = data.finish_id
            IN  workers' = [workers EXCEPT ![w] =
                    [@ EXCEPT !.data = data,
                              !.name = IF card = {} THEN "" ELSE (CHOOSE c \in card : TRUE).name,
                              !.position_to_assign = data.position,
                              !.status = IF ok THEN 0 ELSE 404,
                              !.pc = IF ~ ok THEN "done"
                                     ELSE IF /\ IsFile(CHOOSE c \in container : TRUE)
                                             /\ data.position = NULL
                                     THEN "same_name" ELSE "existing"]]
        /\ UNCHANGED <<entries, next_id, containers, Language, request, response, served,
                       next_container_id>>

\* collection.py 79-92: existing_same_name ... .first()
add_read_same_name ==
    \E w \in Workers :
        /\ workers[w].pc = "same_name"
        /\ LET existing_same_name ==
                   { e \in Visible(entries) :
                       /\ e.container_id = workers[w].data.container_id
                       /\ e.user_id = user
                       /\ e.position # NULL
                       /\ \E c \in Card : /\ c.set_code = e.set_code
                                          /\ c.number = e.card_number
                                          /\ c.name = workers[w].name }
           IN  IF existing_same_name # {}
               THEN \E e \in existing_same_name :
                        workers' = [workers EXCEPT ![w] =
                            [@ EXCEPT !.position_to_assign = e.position,
                                      !.had_group = TRUE, !.pc = "existing"]]
               ELSE workers' = [workers EXCEPT ![w] = [@ EXCEPT !.pc = "max_position"]]
        /\ UNCHANGED <<entries, next_id, containers, Language, request, response, served,
                       next_container_id>>

\* collection.py 93-98: max(position) of the container, then + 1
add_read_max_position ==
    \E w \in Workers :
        /\ workers[w].pc = "max_position"
        /\ workers' = [workers EXCEPT ![w] =
               [@ EXCEPT !.position_to_assign =
                             MaxPositionOr0(Visible(entries), workers[w].data.container_id) + 1,
                         !.pc = "existing"]]
        /\ UNCHANGED <<entries, next_id, containers, Language, request, response, served,
                       next_container_id>>

\* collection.py 100-108: the entry of the exact variant, loaded with its quantity
add_read_existing ==
    \E w \in Workers :
        /\ workers[w].pc = "existing"
        /\ LET data == workers[w].data
               existing == { e \in Visible(entries) :
                               /\ e.set_code = Upper(data.set_code)
                               /\ e.card_number = data.card_number
                               /\ e.container_id = data.container_id
                               /\ e.finish_id = data.finish_id
                               /\ e.language_id = data.language_id
                               /\ e.user_id = user }
           IN  IF existing # {}
               THEN \E e \in existing :
                        workers' = [workers EXCEPT ![w] =
                            [@ EXCEPT !.existing = e.id, !.quantity = e.quantity,
                                      !.pc = "commit"]]
               ELSE workers' = [workers EXCEPT ![w] = [@ EXCEPT !.pc = "commit"]]
        /\ UNCHANGED <<entries, next_id, containers, Language, request, response, served,
                       next_container_id>>

\* collection.py 110-132: existing.quantity += data.quantity, or db.add(entry);
\* db.commit() writes the loaded quantity plus data.quantity, or inserts the
\* row, and raises when the row breaks uq_collection_entry
add_commit ==
    \E w \in Workers :
        /\ workers[w].pc = "commit"
        /\ LET data == workers[w].data
               entry == NewEntry(next_id, Upper(data.set_code), data.card_number,
                                 data.container_id, data.quantity, data.finish_id,
                                 data.language_id, workers[w].position_to_assign)
           IN  IF workers[w].existing # NULL
               THEN /\ entries' = { IF e.id = workers[w].existing
                                    THEN [e EXCEPT !.quantity = workers[w].quantity + data.quantity]
                                    ELSE e : e \in entries }
                    /\ next_id' = next_id
                    /\ workers' = [workers EXCEPT ![w] = [@ EXCEPT !.status = 200, !.pc = "done"]]
               ELSE IF UniqueConstraintHolds(entries \cup {entry})
               THEN /\ entries' = entries \cup {entry}
                    /\ next_id' = next_id + 1
                    /\ workers' = [workers EXCEPT ![w] = [@ EXCEPT !.status = 200, !.pc = "done"]]
               ELSE /\ entries' = entries
                    /\ next_id' = next_id + 1
                    /\ workers' = [workers EXCEPT ![w] = [@ EXCEPT !.status = 500, !.pc = "done"]]
        /\ UNCHANGED <<containers, Language, request, response, served, next_container_id>>

NextRace ==
    \/ add_validate
    \/ add_read_same_name
    \/ add_read_max_position
    \/ add_read_existing
    \/ add_commit

SpecRace == InitRace /\ [][NextRace]_vars

----------------------------------------------------------------------------
(* Specification of the bulk reposition: one batch on every small store *)

\* where an entry lies and whose it is: the user's binder, the user's box, the
\* binder of the other user
BatchPlaces == { [container_id |-> 1, user_id |-> user],
                 [container_id |-> 2, user_id |-> user],
                 [container_id |-> 3, user_id |-> OtherUser] }

\* the entries of n drawn rows, ids in insertion order
BatchEntries(place, pos, n) ==
    { [NewEntry(i, IF i = 1 THEN "AAA" ELSE "CCC", "1", place[i].container_id, 1, NULL, 1,
                pos[i])
       EXCEPT !.user_id = place[i].user_id]
      : i \in 1 .. n }

\* PositionUpdate rows: entry ids of the store and one past them, position
\* None or an integer
PositionUpdates == [ entry_id : 1 .. MaxBatchEntries + 1, position : {NULL, 2, FarPosition} ]

InitBatch ==
    /\ \E n \in 0 .. MaxBatchEntries :
       \E place \in [1 .. n -> BatchPlaces], pos \in [1 .. n -> {NULL, 1}] :
           /\ entries = BatchEntries(place, pos, n)
           /\ next_id = n + 1
    /\ containers = InitContainers
    /\ Language = EnglishTable
    /\ request = [op |-> "none"]
    /\ response = [status |-> 0]
    /\ served = 0
    /\ workers = << >>
    /\ next_container_id = Cardinality(InitContainers) + 1

\* collection.py 642-668 on a batch of up to MaxBatch rows
update_binder_positions_batch ==
    /\ served = 0
    /\ \E container_id \in {1, 2, 3, 9}, updates \in SeqsUpTo(PositionUpdates, MaxBatch) :
        \E o \in RepositionOutcomes(entries, next_id, containers, container_id, updates) :
            /\ served' = 1
            /\ entries' = o.entries
            /\ next_id' = o.next_id
            /\ response' = o.response
            /\ request' = [op |-> "update_binder_positions", container_id |-> container_id,
                           updates |-> updates]
            /\ UNCHANGED <<containers, Language, workers, next_container_id>>

NextBatch == update_binder_positions_batch

SpecBatch == InitBatch /\ [][NextBatch]_vars

----------------------------------------------------------------------------
(* Containers: create_container, update_container, delete_container *)

\* a response without a body of interest
Status(status, detail) == [status |-> status, detail |-> detail]

\* containers.py 100-137: binder_columns and binder_fill_row of the body are
\* not passed on, the row takes the column defaults
CreateContainerOutcomes(cs, ncid, data) ==
    LET parent == OwnContainer(cs, data.parent_id)
        rejected(detail) == [containers |-> cs, next_container_id |-> ncid,
                             response |-> Status(400, detail)]
        created(depth) ==
            [containers |-> cs \cup { [id |-> ncid, type_id |-> data.type_id,
                                       parent_id |-> data.parent_id, depth |-> depth,
                                       user_id |-> user, binder_columns |-> 3,
                                       binder_fill_row |-> FALSE] },
             next_container_id |-> ncid + 1,
             response |-> [op |-> "create_container", status |-> 200, id |-> ncid,
                           depth |-> depth]]
    IN  IF ~ \E t \in ContainerType : t.id = data.type_id
        THEN rejected("Invalid container type")
        ELSE IF data.parent_id = NULL \/ data.parent_id = 0
        THEN created(0)
        ELSE IF parent = {}
        THEN rejected("Parent container not found")
        ELSE IF (CHOOSE c \in parent : TRUE).depth + 1 > MaxDepth
        THEN rejected("Maximum container depth (10) exceeded")
        ELSE created((CHOOSE c \in parent : TRUE).depth + 1)

\* containers.py 140-196: only the container itself is rewritten
UpdateContainerOutcomes(cs, container_id, data) ==
    LET found == OwnContainer(cs, container_id)
        parent == OwnContainer(cs, data.parent_id)
        rejected(status, detail) == [containers |-> cs, response |-> Status(status, detail)]
    IN  IF found = {}
        THEN rejected(404, "Container not found")
        ELSE IF data.type_id # NULL /\ ~ \E t \in ContainerType : t.id = data.type_id
        THEN rejected(400, "Invalid container type")
        ELSE IF data.parent_id # NULL /\ data.parent_id = container_id
        THEN rejected(400, "Container cannot be its own parent")
        ELSE IF data.parent_id # NULL /\ parent = {}
        THEN rejected(400, "Parent container not found")
        ELSE IF data.parent_id # NULL /\ (CHOOSE c \in parent : TRUE).depth + 1 > MaxDepth
        THEN rejected(400, "Maximum container depth (10) exceeded")
        ELSE LET container == CHOOSE c \in found : TRUE
                 updated ==
                     [container EXCEPT
                          !.type_id = IF data.type_id # NULL THEN data.type_id ELSE @,
                          !.parent_id = IF data.parent_id # NULL THEN data.parent_id ELSE @,
                          !.depth = IF data.parent_id # NULL
                                    THEN (CHOOSE c \in parent : TRUE).depth + 1 ELSE @,
                          !.binder_columns = IF data.binder_columns # NULL
                                             THEN data.binder_columns ELSE @,
                          !.binder_fill_row = IF data.binder_fill_row # NULL
                                              THEN data.binder_fill_row = 1 ELSE @]
             IN  [containers |-> (cs \ found) \cup {updated},
                  response |-> [op |-> "update_container", status |-> 200,
                                id |-> container_id, depth |-> updated.depth]]

\* a delete that leaves the entries of the container in the store
DeleteContainerKeepsEntries(cs, es, container_id) ==
    LET found == OwnContainer(cs, container_id)
    IN  IF found = {}
        THEN [containers |-> cs, entries |-> es,
              response |-> Status(404, "Container not found")]
        ELSE IF \E c \in cs : c.parent_id = container_id
        THEN [containers |-> cs, entries |-> es,
              response |-> Status(400, "Cannot delete container with children")]
        ELSE [containers |-> cs \ found, entries |-> es,
              response |-> Status(200, "Container deleted")]

\* containers.py 199-224 with the cascade of Container.collection_entries
\* (models/container.py 34, models/collection.py 13)
DeleteContainerOutcomes(cs, es, container_id) ==
    LET found == OwnContainer(cs, container_id)
    IN  IF found = {}
        THEN [containers |-> cs, entries |-> es,
              response |-> Status(404, "Container not found")]
        ELSE IF \E c \in cs : c.parent_id = container_id
        THEN [containers |-> cs, entries |-> es,
              response |-> Status(400, "Cannot delete container with children")]
        ELSE [containers |-> cs \ found,
              entries |-> { e \in es : e.container_id # container_id },
              response |-> Status(200, "Container deleted")]

\* collection.py 23-35: the ids visited from a container towards the root in
\* at most n steps of current = parent
RECURSIVE PathUpTo(_, _, _)
PathUpTo(cs, id, n) ==
    LET current == AnyContainer(cs, id)
    IN  IF n = 0 \/ current = {}
        THEN << >>
        ELSE LET c == CHOOSE x \in current : TRUE
             IN  IF c.parent_id = NULL \/ c.parent_id = 0
                 THEN << c.id >>
                 ELSE << c.id >> \o PathUpTo(cs, c.parent_id, n - 1)

\* ContainerCreate bodies
ContainerCreates == [ type_id : {1, 2, 9}, parent_id : {NULL} \cup (1 .. MaxContainerId) ]

\* ContainerUpdate bodies: a boolean of the body is 1 for true
ContainerUpdates ==
    [ type_id : {NULL, 2, 9}, parent_id : {NULL} \cup (1 .. MaxContainerId),
      binder_columns : {NULL}, binder_fill_row : {NULL} ]
    \cup
    { [type_id |-> NULL, parent_id |-> NULL, binder_columns |-> 4, binder_fill_row |-> 1] }

\* the entries the hierarchy starts with: one in each container
TreeEntries ==
    { NewEntry(1, "AAA", "1", 1, 1, NULL, 1, 1),
      NewEntry(2, "BBB", "1", 2, 1, NULL, 1, NULL),
      [NewEntry(3, "CCC", "1", 3, 1, NULL, 1, 1) EXCEPT !.user_id = OtherUser] }

InitTree ==
    /\ entries = TreeEntries
    /\ next_id = Cardinality(TreeEntries) + 1
    /\ containers = InitContainers
    /\ Language = EnglishTable
    /\ request = [op |-> "none"]
    /\ response = [status |-> 0]
    /\ served = 0
    /\ workers = << >>
    /\ next_container_id = Cardinality(InitContainers) + 1

create_container ==
    /\ served < MaxTreeRequests
    /\ next_container_id <= MaxContainerId
    /\ \E data \in ContainerCreates :
        LET o == CreateContainerOutcomes(containers, next_container_id, data)
        IN  /\ served' = served + 1
            /\ containers' = o.containers
            /\ next_container_id' = o.next_container_id
            /\ response' = o.response
            /\ request' = [op |-> "create_container", container_id |-> NULL,
                           parent_id |-> data.parent_id]
            /\ UNCHANGED <<entries, next_id, Language, workers>>

update_container ==
    /\ served < MaxTreeRequests
    /\ \E container_id \in 1 .. MaxContainerId, data \in ContainerUpdates :
        LET o == UpdateContainerOutcomes(containers, container_id, data)
        IN  /\ served' = served + 1
            /\ containers' = o.containers
            /\ response' = o.response
            /\ request' = [op |-> "update_container", container_id |-> container_id,
                           parent_id |-> data.parent_id]
            /\ UNCHANGED <<entries, next_id, Language, workers, next_container_id>>

delete_container ==
    /\ served < MaxTreeRequests
    /\ \E container_id \in 1 .. MaxContainerId :
        LET o == DeleteContainerOutcomes(containers, entries, container_id)
        IN  /\ served' = served + 1
            /\ containers' = o.containers
            /\ entries' = o.entries
            /\ response' = o.response
            /\ request' = [op |-> "delete_container", container_id |-> container_id,
                           parent_id |-> NULL]
            /\ UNCHANGED <<next_id, Language, workers, next_container_id>>

NextTree ==
    \/ create_container
    \/ update_container
    \/ delete_container

SpecTree == InitTree /\ [][NextTree]_vars

----------------------------------------------------------------------------
(* Properties of the collection store *)

\* the positioned entries of the user in a container
Positioned(es, container_id) ==
    { e \in es : e.container_id = container_id /\ e.user_id = user /\ e.position # NULL }

\* the positions the entries of one card name carry in a container
GroupPositions(es, container_id, name) ==
    { e.position : e \in { x \in Positioned(es, container_id) : CardName(x) = name } }

\* the positions in use in a container
PositionsInUse(es, container_id) ==
    { e.position : e \in Positioned(es, container_id) }

\* the largest position in use in a container, 0 when there is none
LargestPosition(es, container_id) ==
    IF PositionsInUse(es, container_id) = {} THEN 0
    ELSE CHOOSE p \in PositionsInUse(es, container_id) :
             \A q \in PositionsInUse(es, container_id) : q <= p

\* the entries of a container, of any user
EntriesIn(es, container_id) == { e \in es : e.container_id = container_id }

\* the card names a container holds
NamesIn(es, container_id) == { CardName(e) : e \in EntriesIn(es, container_id) }

\* the binders of the user
OwnFileContainers == { c \in containers : c.user_id = user /\ IsFile(c) }

\* C1: in every 'file' container, two positioned entries whose cards have the
\* same name carry the same position
C1_SameNameSamePosition ==
    \A c \in containers :
        IsFile(c) =>
            \A a, b \in Positioned(entries, c.id) :
                CardName(a) = CardName(b) => a.position = b.position

\* C2: in every 'file' container, two positioned entries whose cards have
\* different names carry different positions
C2_DifferentNamesDifferentPositions ==
    \A c \in containers :
        IsFile(c) =>
            \A a, b \in Positioned(entries, c.id) :
                CardName(a) # CardName(b) => a.position # b.position

\* the entries an outcome created on the current store
Created(o) == { e \in o.entries : e.id >= next_id }

\* the store of every outcome
Stores(outcomes) == { [entries |-> o.entries, next_id |-> o.next_id] : o \in outcomes }

\* the outcomes of the two creation paths that assign positions, on the current
\* store and a container: every add without an explicit position and every
\* import of one row
PolicyOutcomes(container_id) ==
    UNION { AddOutcomes(entries, next_id, containers, Language, data)
            : data \in { d \in AddRequests : d.position = NULL
                                             /\ d.container_id = container_id } }
    \cup
    UNION { ImportOutcomes(entries, next_id, containers, Language, container_id, << row >>)
            : row \in ImportRowValues }

\* C3: group merge. When a binder holds a positioned entry of a card name at
\* position p, an entry of that name which an add without explicit position or
\* an import row creates there is stored with position p; the positions in use
\* and the largest position of the binder stay as they were
C3_GroupMerge ==
    \A c \in OwnFileContainers :
        \A o \in PolicyOutcomes(c.id) :
            \A e \in Created(o) :
                \A p \in GroupPositions(entries, c.id, CardName(e)) :
                    /\ e.position = p
                    /\ PositionsInUse(o.entries, c.id) = PositionsInUse(entries, c.id)
                    /\ LargestPosition(o.entries, c.id) = LargestPosition(entries, c.id)

\* what the two paths keep when a name is spread over several positions: the
\* created entry joins one of the positions of its name, and no position is opened
GroupMergeJoinsGroup ==
    \A c \in OwnFileContainers :
        \A o \in PolicyOutcomes(c.id) :
            \A e \in Created(o) :
                GroupPositions(entries, c.id, CardName(e)) # {}
                => /\ e.position \in GroupPositions(entries, c.id, CardName(e))
                   /\ PositionsInUse(o.entries, c.id) = PositionsInUse(entries, c.id)
                   /\ LargestPosition(o.entries, c.id) = LargestPosition(entries, c.id)

\* an add without explicit position has just created the entry of the response
AddCreatedByPolicy ==
    /\ request.op = "add_to_collection"
    /\ request.position = NULL
    /\ response.status = 200
    /\ response.id = next_id - 1
    /\ response.quantity = 1

\* C4: new group. An entry that an add without explicit position or an import
\* row creates in a binder which holds no positioned entry of its card name gets
\* 1 + the largest position in use in the binder, 1 when none is in use
C4_NewGroup ==
    \A c \in OwnFileContainers :
        \A o \in PolicyOutcomes(c.id) :
            \A e \in Created(o) :
                GroupPositions(entries, c.id, CardName(e)) = {}
                => e.position = 1 + LargestPosition(entries, c.id)

\* C4 witness: entry 1 was deleted from position 1, position 2 is in use, and
\* the add created the entry of a new card name at 3, not in the gap at 1
C4_Witness ==
    /\ AddCreatedByPolicy
    /\ response.container_id = 1
    /\ response.position = 3
    /\ \A e \in entries : e.id # 1
    /\ PositionsInUse(entries, 1) = {2, 3}
    /\ \A e, o \in Positioned(entries, 1) :
           e.position # o.position => CardName(e) # CardName(o)

\* C5: an add with an explicit position answers 200 with the supplied position,
\* and the entry of the response carries it
C5_ExplicitPositionStored ==
    (request.op = "add_to_collection" /\ request.position # NULL /\ response.status = 200)
    => /\ response.position = request.position
       /\ \A e \in entries : e.id = response.id => e.position = request.position

\* the add request and the import row of one variant
AddRequestOf(card, container_id, finish_id, language) ==
    [set_code |-> card.set_code, card_number |-> card.number,
     container_id |-> container_id, quantity |-> 1, finish_id |-> finish_id,
     language_id |-> language.id, position |-> NULL]

ImportRowOf(card, finish_id, language) ==
    [card_name |-> card.name, set_code |-> card.set_code, card_number |-> card.number,
     quantity |-> "1", foil |-> IF finish_id = NULL THEN "" ELSE "foil",
     language |-> language.name]

\* C6: on every store and binder, an add without explicit position and the
\* import of one row of the same variant leave the same store: the same entry
\* with the same position, or the same raised quantity
C6_AddImportSamePolicy ==
    \A c \in OwnFileContainers :
        \A card \in Card, finish_id \in {NULL, 1}, language \in Language :
            Stores(AddOutcomes(entries, next_id, containers, Language,
                               AddRequestOf(card, c.id, finish_id, language)))
            = Stores(ImportOutcomes(entries, next_id, containers, Language, c.id,
                                    << ImportRowOf(card, finish_id, language) >>))

\* C6 witness: a one-row import has created a second printing of a card name in
\* the binder, at the position of the older printing
C6_Witness ==
    /\ request.op = "import_collection"
    /\ request.container_id = 1
    /\ response.status = 200
    /\ response.imported_count = 1
    /\ response.warnings = 0
    /\ \E e, older \in entries :
           /\ e.id = next_id - 1
           /\ older.id < e.id
           /\ older.container_id = 1
           /\ e.container_id = 1
           /\ older.set_code # e.set_code
           /\ CardName(older) = CardName(e)
           /\ older.position # NULL
           /\ e.position = older.position

\* C7: no two entries of the user hold the same variant in the same container,
\* a NULL finish_id counting as a value
C7_UniqueVariant ==
    \A a, b \in entries :
        (a.id # b.id /\ a.user_id = b.user_id)
        => ~(/\ a.set_code = b.set_code
             /\ a.card_number = b.card_number
             /\ a.container_id = b.container_id
             /\ a.finish_id = b.finish_id
             /\ a.language_id = b.language_id)

\* the outcomes of every move of an entry into a container, on the current store
MoveOutcomesInto(container_id) ==
    UNION { MoveOutcomes(entries, next_id, containers, entry_id, data)
            : entry_id \in EntryIds,
              data \in { d \in MoveRequests : d.target_container_id = container_id } }

\* C16: every entry that an add without explicit position, an import or a move
\* creates in a binder is stored with a non-null position that the assignment
\* policy gives: a position of the same-name group of the binder, or the
\* largest position + 1 when the binder has no such group
C16_CreatedEntryPositioned ==
    \A c \in OwnFileContainers :
        \A o \in PolicyOutcomes(c.id) \cup MoveOutcomesInto(c.id) :
            \A e \in { x \in Created(o) : x.container_id = c.id } :
                /\ e.position # NULL
                /\ IF GroupPositions(entries, c.id, CardName(e)) # {}
                   THEN e.position \in GroupPositions(entries, c.id, CardName(e))
                   ELSE e.position = 1 + LargestPosition(entries, c.id)

\* the same statement of the two paths that call the policy: add without
\* explicit position and import
CreatedByAddOrImportPositioned ==
    \A c \in OwnFileContainers :
        \A o \in PolicyOutcomes(c.id) :
            \A e \in { x \in Created(o) : x.container_id = c.id } :
                /\ e.position # NULL
                /\ IF GroupPositions(entries, c.id, CardName(e)) # {}
                   THEN e.position \in GroupPositions(entries, c.id, CardName(e))
                   ELSE e.position = 1 + LargestPosition(entries, c.id)

\* C17: position stability on insert. An add (with or without explicit
\* position) or an import leaves every entry that existed before the call in
\* the store with the position it had
C17_PositionStableOnInsert ==
    [][ (served' = served + 1
         /\ request'.op \in {"add_to_collection", "import_collection"})
        => \A e \in entries :
               \E n \in entries' : n.id = e.id /\ n.position = e.position ]_vars

\* C17 witness: an add with an explicit position met the entry of its exact
\* variant at position 1 and merged into it: the quantity grew, the entry is
\* still at position 1
C17_Witness ==
    /\ request.op = "add_to_collection"
    /\ request.position = FarPosition
    /\ response.status = 200
    /\ response.quantity = 2
    /\ response.position = 1
    /\ \E e \in entries : e.id = response.id /\ e.position = 1

\* C18: contiguity. In a binder filled from empty by adds without explicit
\* position and imports only, every entry has a position, two entries share a
\* position exactly when they share a card name, and the positions in use are
\* 1..k for the k card names of the binder
C18_Contiguity ==
    \A c \in OwnFileContainers :
        LET es == EntriesIn(entries, c.id)
            k == Cardinality(NamesIn(entries, c.id))
        IN  /\ \A e \in es : e.position # NULL
            /\ \A a, b \in es : (CardName(a) = CardName(b)) <=> (a.position = b.position)
            /\ { e.position : e \in es } = 1 .. k

\* C18 witness: an import has left binder 1 with three entries of two card
\* names on positions 1 and 2
C18_Witness ==
    /\ request.op = "import_collection"
    /\ response.status = 200
    /\ Cardinality(EntriesIn(entries, 1)) = 3
    /\ Cardinality(NamesIn(entries, 1)) = 2
    /\ PositionsInUse(entries, 1) = {1, 2}

----------------------------------------------------------------------------
(* The binder page in single-representative mode *)

\* a page of a binder was served in single-representative mode
SinglePageServed ==
    /\ request.op = "get_binder_page"
    /\ response.status = 200
    /\ ~ response.binder_fill_row

\* the release date an entry is ranked by: that of its set, the maximum date
\* when the set has no row or no date
RankedDate(e) ==
    IF \E st \in Set : st.code = e.set_code /\ st.release_date # NULL
    THEN (CHOOSE st \in Set : st.code = e.set_code).release_date
    ELSE MaxDate

\* the rank of an entry: (language is not English, release date, id)
Rank(e) ==
    << IF \E l \in Language : l.id = e.language_id /\ Lower(l.name) = "english"
       THEN 0 ELSE 1,
       RankedDate(e),
       e.id >>

\* a rank comes before another one
RankBefore(a, b) ==
    \/ a[1] < b[1]
    \/ a[1] = b[1] /\ a[2] < b[2]
    \/ a[1] = b[1] /\ a[2] = b[2] /\ a[3] < b[3]

\* the entries of the minimum rank among those of a position
Representatives(container_id, pos) ==
    { e \in EntriesAt(entries, container_id, pos) :
          \A o \in EntriesAt(entries, container_id, pos) \ {e} : RankBefore(Rank(e), Rank(o)) }

\* C8: every filled slot of a page in single-representative mode shows the entry
\* of its position that is the minimum of the order (language is not English,
\* release date with a missing set row or date as the maximum date, entry id)
C8_RepresentativeIsMinimum ==
    SinglePageServed
    => \A i \in 1 .. Len(response.slots) :
           ~ response.slots[i].is_empty
           => \E e \in Representatives(request.container_id, response.slots[i].position) :
                  response.slots[i].entry_id = e.id

\* slots of a page for the columns of a binder
ClaimedSlotsPerPage(columns) == IF columns = 2 THEN 4 ELSE columns * 3

\* the window, the emptiness and the overflow count of a served page: slot i is
\* that of position (page-1)*slots_per_page + i, empty iff no entry is there
PageWindow ==
    SinglePageServed
    => LET slots_per_page == ClaimedSlotsPerPage(response.binder_columns)
       IN  /\ Len(response.slots) = slots_per_page
           /\ \A i \in 1 .. Len(response.slots) :
                  LET slot == response.slots[i]
                      at_p == EntriesAt(entries, request.container_id, slot.position)
                  IN  /\ slot.position = (request.page - 1) * slots_per_page + i
                      /\ slot.is_empty <=> at_p = {}
                      /\ slot.is_empty => slot.entry_id = NULL /\ slot.overflow_count = NULL
                      /\ ~ slot.is_empty =>
                             /\ \E e \in at_p : /\ slot.entry_id = e.id
                                                /\ slot.set_code = e.set_code
                                                /\ slot.quantity = e.quantity
                             /\ slot.overflow_count =
                                    IF Cardinality(at_p) > 1 THEN Cardinality(at_p) - 1
                                    ELSE NULL

\* C9: a page in single-representative mode has slots_per_page slots of
\* consecutive positions from (page-1)*slots_per_page + 1; a slot is empty iff
\* the user has no entry at its position, and a filled slot carries the
\* representative of the position and the number of further entries there
C9_SingleRepresentativePage ==
    /\ PageWindow
    /\ SinglePageServed
       => \A i \in 1 .. Len(response.slots) :
              Representatives(request.container_id, response.slots[i].position) # {}
              => \E e \in Representatives(request.container_id, response.slots[i].position) :
                     response.slots[i].entry_id = e.id

\* ceil(a / b) for b > 0
CeilDiv(a, b) == IF a % b = 0 THEN a \div b ELSE (a \div b) + 1

\* C10: in single-representative mode total_pages is max(1, ceil(max_position /
\* slots_per_page)) with max_position the largest position of the user's entries
\* in the container, 0 without one; a binder without positioned entries has one
\* page, and its page 1 has only empty slots
C10_TotalPages ==
    SinglePageServed
    => LET slots_per_page == ClaimedSlotsPerPage(response.binder_columns)
           pages == CeilDiv(response.max_position, slots_per_page)
       IN  /\ response.max_position = LargestPosition(entries, request.container_id)
           /\ response.total_pages = IF pages > 1 THEN pages ELSE 1
           /\ Positioned(entries, request.container_id) = {}
              => /\ response.total_pages = 1
                 /\ response.max_position = 0
                 /\ \A i \in 1 .. Len(response.slots) : response.slots[i].is_empty

\* C10 witness: a two-column binder whose largest position is 10 has 3 pages of
\* 4 slots, and page 3 shows position 10
C10_Witness ==
    /\ SinglePageServed
    /\ response.binder_columns = 2
    /\ response.max_position = FarPosition
    /\ response.total_pages = 3
    /\ request.page = 3
    /\ ~ response.slots[2].is_empty
    /\ response.slots[2].position = FarPosition

----------------------------------------------------------------------------
(* The binder page in fill-row mode *)

\* a page of a binder was served in fill-row mode
FillPageServed ==
    /\ request.op = "get_binder_page"
    /\ response.status = 200
    /\ response.binder_fill_row

\* slots a position contributes at most
FillCap == 4

\* the entries of a set in ascending rank
RECURSIVE RankSorted(_)
RankSorted(S) ==
    IF S = {}
    THEN << >>
    ELSE LET first == CHOOSE e \in S : \A o \in S \ {e} : RankBefore(Rank(e), Rank(o))
         IN  << first >> \o RankSorted(S \ {first})

\* the first n elements of a sequence
Prefix(q, n) == IF Len(q) <= n THEN q ELSE SubSeq(q, 1, n)

\* the flat list of (position, entry id): for each position in ascending order
\* the first min(n, 4) of its n entries in ascending rank
RECURSIVE RankedFlat(_, _)
RankedFlat(container_id, positions) ==
    IF positions = {}
    THEN << >>
    ELSE LET pos == CHOOSE p \in positions : \A q \in positions : p <= q
             shown == Prefix(RankSorted(EntriesAt(entries, container_id, pos)), FillCap)
         IN  [ i \in 1 .. Len(shown) |-> << pos, shown[i].id >> ]
             \o RankedFlat(container_id, positions \ {pos})

\* the filled slots of a served page as (position, entry id)
ShownSlots ==
    LET filled == SelectSeq(response.slots, LAMBDA slot : ~ slot.is_empty)
    IN  [ i \in 1 .. Len(filled) |-> << filled[i].position, filled[i].entry_id >> ]

\* elements first .. last of a sequence, as far as it reaches
Slice(q, first, last) ==
    IF first > Len(q) THEN << >>
    ELSE SubSeq(q, first, IF last < Len(q) THEN last ELSE Len(q))

\* C11: fill-row cap. The filled slots of a page in fill-row mode are the
\* page's part of the flat list in which every position, in ascending order,
\* contributes the first min(n, 4) of its n entries in the representative order
\* (not English, release date, id), each slot carrying the position's number
C11_FillRowCap ==
    FillPageServed
    => LET slots_per_page == ClaimedSlotsPerPage(response.binder_columns)
       IN  ShownSlots
           = Slice(RankedFlat(request.container_id,
                              PositionsInUse(entries, request.container_id)),
                   (request.page - 1) * slots_per_page + 1,
                   request.page * slots_per_page)

\* the part of the cap that does not depend on the order within a position:
\* a position with n entries fills min(n, 4) slots over all pages, with
\* distinct entries of that position, and positions come in ascending order
FillRowCapCounts ==
    FillPageServed
    => LET flat == ExpandedSlots(entries, request.container_id,
                                 DistinctPositions(entries, request.container_id),
                                 Language, EnglishLangId(Language))
       IN  /\ \A p \in PositionsInUse(entries, request.container_id) :
                  LET n == Cardinality(EntriesAt(entries, request.container_id, p))
                      mine == { i \in 1 .. Len(flat) : flat[i].position = p }
                  IN  /\ Cardinality(mine) = (IF n < FillCap THEN n ELSE FillCap)
                      /\ \A i \in mine :
                             \E e \in EntriesAt(entries, request.container_id, p) :
                                 flat[i].entry_id = e.id
                      /\ \A i, j \in mine : i # j => flat[i].entry_id # flat[j].entry_id
           /\ \A i, j \in 1 .. Len(flat) : i < j => flat[i].position <= flat[j].position
           /\ \A i \in 1 .. Len(flat) :
                  flat[i].position \in PositionsInUse(entries, request.container_id)

\* the filled slots of pages p .. total of the binder, one page after the other
RECURSIVE PagesShown(_, _, _)
PagesShown(container_id, p, total) ==
    IF p > total
    THEN << >>
    ELSE SelectSeq(BinderPage(entries, containers, Language, container_id, p).slots,
                   LAMBDA slot : ~ slot.is_empty)
         \o PagesShown(container_id, p + 1, total)

\* C12: fill-row pagination. total_pages is max(1, ceil(expanded slots /
\* slots_per_page)); the page has slots_per_page slots, the elements
\* (page-1)*slots_per_page .. page*slots_per_page - 1 of the flat expanded list
\* followed by empty slots of position 0; pages 1 .. total_pages show every
\* expanded slot exactly once
C12_FillRowPagination ==
    FillPageServed
    => LET slots_per_page == ClaimedSlotsPerPage(response.binder_columns)
           flat == ExpandedSlots(entries, request.container_id,
                                 DistinctPositions(entries, request.container_id),
                                 Language, EnglishLangId(Language))
           pages == CeilDiv(Len(flat), slots_per_page)
       IN  /\ response.total_pages = (IF pages > 1 THEN pages ELSE 1)
           /\ Len(response.slots) = slots_per_page
           /\ \A i \in 1 .. Len(response.slots) :
                  LET index == (request.page - 1) * slots_per_page + i
                  IN  IF index <= Len(flat)
                      THEN response.slots[i] = flat[index]
                      ELSE /\ response.slots[i].is_empty
                           /\ response.slots[i].position = 0
                           /\ response.slots[i].entry_id = NULL
           /\ PagesShown(request.container_id, 1, response.total_pages) = flat

\* C12 witness: a two-column binder with six expanded slots has two pages, and
\* page 2 shows the last two slots and two empty slots of position 0
C12_Witness ==
    /\ FillPageServed
    /\ response.binder_columns = 2
    /\ response.total_pages = 2
    /\ request.page = 2
    /\ ~ response.slots[1].is_empty
    /\ ~ response.slots[2].is_empty
    /\ response.slots[3].is_empty /\ response.slots[3].position = 0
    /\ response.slots[4].is_empty /\ response.slots[4].position = 0

----------------------------------------------------------------------------
(* The binder endpoints on containers that are not binders *)

\* the lower-cased names of the type rows of a container: none when the row is missing
TypeNames(c) == { Lower(t.name) : t \in { x \in ContainerType : x.id = c.type_id } }

\* the containers with an id that are not of type 'file'
NonFile(cs, container_id) ==
    { c \in AnyContainer(cs, container_id) : "file" \notin TypeNames(c) }

\* C19: get_binder_page answers 404 (NotFound) when no container has the id and
\* 400 (InvalidOperation) when the container's type is not 'file'; in both
\* cases the response has no slot list and the store is as it was
C19_BinderPageErrors ==
    [][ request'.op = "get_binder_page"
        => LET found == AnyContainer(containers, request'.container_id)
               failed == found = {} \/ NonFile(containers, request'.container_id) # {}
           IN  /\ found = {} => response'.status = 404
               /\ NonFile(containers, request'.container_id) # {} => response'.status = 400
               /\ failed => /\ "slots" \notin DOMAIN response'
                            /\ entries' = entries
                            /\ next_id' = next_id
                            /\ containers' = containers ]_vars

\* C19 witness: the page of box 2 was asked for, over a store that holds
\* entries, and the answer is 400 without slots
C19_Witness ==
    /\ request.op = "get_binder_page"
    /\ NonFile(containers, request.container_id) # {}
    /\ entries # {}
    /\ response.status = 400
    /\ "slots" \notin DOMAIN response

\* C20: a bulk reposition asked of a container that is not of type 'file' is
\* answered 400 (InvalidOperation) and leaves every entry's position as it was
C20_NonFileRejected ==
    [][ (/\ served' = served + 1
         /\ request'.op = "update_binder_positions"
         /\ NonFile(containers, request'.container_id) # {})
        => /\ response'.status = 400
           /\ \A e \in entries :
                  \E n \in entries' : n.id = e.id /\ n.position = e.position ]_vars

\* what the bulk reposition does check: a container id that no container has
\* is answered 404 and the store is as it was
RepositionOfMissingContainer ==
    [][ (/\ served' = served + 1
         /\ request'.op = "update_binder_positions"
         /\ AnyContainer(containers, request'.container_id) = {})
        => response'.status = 404 /\ entries' = entries ]_vars

----------------------------------------------------------------------------
(* The consolidation of migration 005 *)

\* the migration has run
Consolidated == request.op = "upgrade"

\* the place of a name among the names of a container, in ascending order
NamePlace(es, container_id, name) ==
    Cardinality({ n \in NamesIn(es, container_id) : NameOrder(n) <= NameOrder(name) })

\* C13: after the consolidation every entry of a binder carries the place of
\* its card name among the k names of the binder in ascending name order: one
\* position for a name, different positions for different names, 1 .. k in use
C13_ConsolidationResult ==
    Consolidated
    => \A c \in { x \in containers : IsFile(x) } :
           /\ \A e \in EntriesIn(entries, c.id) :
                  e.position = NamePlace(entries, c.id, CardName(e))
           /\ { e.position : e \in EntriesIn(entries, c.id) }
              = 1 .. Cardinality(NamesIn(entries, c.id))

\* C13 witness: Shock was inserted before two printings of Bolt; Bolt is at
\* position 1 with both printings and Shock at position 2
C13_Witness ==
    /\ Consolidated
    /\ \E a, b, c \in EntriesIn(entries, 1) :
           /\ a.id = 1 /\ CardName(a) = "Shock" /\ a.position = 2
           /\ b.id = 2 /\ CardName(b) = "Bolt" /\ b.position = 1
           /\ c.id = 3 /\ CardName(c) = "Bolt" /\ c.position = 1
           /\ b.language_id # c.language_id

\* the binder after the entries of a set were added one by one, in ascending
\* id order, without explicit position, each keeping its id
RECURSIVE LiveInsert(_, _)
LiveInsert(es, todo) ==
    IF todo = {}
    THEN es
    ELSE LET e == CHOOSE x \in todo : \A y \in todo : x.id <= y.id
             added == AddOutcomes(es, e.id, containers, Language,
                                  [set_code |-> e.set_code,
                                   card_number |-> e.card_number,
                                   container_id |-> e.container_id,
                                   quantity |-> e.quantity,
                                   finish_id |-> e.finish_id,
                                   language_id |-> e.language_id,
                                   position |-> NULL])
         IN  LiveInsert((CHOOSE o \in added : TRUE).entries, todo \ {e})

\* C14: the position the consolidation writes on an entry of a binder of the
\* user is the one the entry gets when the entries of the binder are added one
\* by one in ascending id order to the empty binder, without explicit positions
C14_ConsolidationMatchesLive ==
    Consolidated
    => \A c \in OwnFileContainers :
           \A e \in EntriesIn(entries, c.id) :
               \E l \in LiveInsert({}, EntriesIn(entries, c.id)) :
                   l.id = e.id /\ l.position = e.position

\* what the two numberings share: they put the same entries together
ConsolidationGroupsAsLive ==
    Consolidated
    => \A c \in OwnFileContainers :
           LET live == LiveInsert({}, EntriesIn(entries, c.id))
           IN  /\ { l.id : l \in live } = { e.id : e \in EntriesIn(entries, c.id) }
               /\ \A e, o \in EntriesIn(entries, c.id) :
                      \A le, lo \in live :
                          (le.id = e.id /\ lo.id = o.id)
                          => ((e.position = o.position) <=> (le.position = lo.position))


----------------------------------------------------------------------------
(* Requests served side by side *)

\* both requests have answered
AllDone == \A w \in Workers : workers[w].pc = "done"

\* both requests were answered 200 for a card of one name that had no
\* positioned entry in the binder when they read the groups
SameNewName ==
    /\ AllDone
    /\ \A w \in Workers : workers[w].status = 200 /\ ~ workers[w].had_group
    /\ workers[1].name = workers[2].name

\* C15: when two add requests of one new card name into one binder are
\* served side by side, then after both have committed the positioned
\* entries of that name in the binder carry one position
C15_ConcurrentSameName ==
    SameNewName =>
        Cardinality({ e.position : e \in { x \in entries :
                          /\ x.container_id = 1
                          /\ x.position # NULL
                          /\ CardName(x) = workers[1].name } }) <= 1

\* served one after the other the two requests do share the position: the
\* second one finds the group of the first
SerialSameName ==
    (/\ AllDone
     /\ \A w \in Workers : workers[w].status = 200
     /\ workers[1].name = workers[2].name
     /\ \E w \in Workers : workers[w].had_group) =>
        Cardinality({ e.position : e \in { x \in entries :
                          /\ x.container_id = 1
                          /\ x.position # NULL
                          /\ CardName(x) = workers[1].name } }) <= 1


----------------------------------------------------------------------------
(* The bulk reposition *)

\* the rows of a batch that name an entry of the caller in the container
AppliedRows(es, container_id, updates) ==
    { i \in 1 .. Len(updates) :
        \E e \in es : /\ e.id = updates[i].entry_id
                      /\ e.container_id = container_id
                      /\ e.user_id = user }

\* the last row of a batch that names an entry, 0 when none does
LastRowOf(updates, entry_id) ==
    LET rows == { i \in 1 .. Len(updates) : updates[i].entry_id = entry_id }
    IN  IF rows = {} THEN 0 ELSE CHOOSE i \in rows : \A j \in rows : j <= i

\* C21: a bulk reposition answered 200 gives every entry of the caller in the
\* container that the batch lists the position of the last row that lists it
\* (null clears it), leaves every other entry and every other field as they
\* were, and returns the number of rows that named such an entry
C21_BestEffortReposition ==
    [][ (request'.op = "update_binder_positions" /\ response'.status = 200)
        => LET cid == request'.container_id
               updates == request'.updates
               applied == AppliedRows(entries, cid, updates)
           IN  /\ response'.updated_count = Cardinality(applied)
               /\ entries' =
                      { IF \E i \in applied : updates[i].entry_id = e.id
                        THEN [e EXCEPT !.position =
                                  updates[LastRowOf(updates, e.id)].position]
                        ELSE e : e \in entries } ]_vars

\* C21 witness: a batch listed entry 1 twice, with position 2 and then with
\* null; two rows were applied and entry 1 has no position
C21_Witness ==
    /\ request.op = "update_binder_positions"
    /\ response.status = 200
    /\ Len(request.updates) = 2
    /\ request.updates[1] = [entry_id |-> 1, position |-> 2]
    /\ request.updates[2] = [entry_id |-> 1, position |-> NULL]
    /\ response.updated_count = 2
    /\ \E e \in entries : e.id = 1 /\ e.position = NULL /\ e.container_id = request.container_id


----------------------------------------------------------------------------
(* Quantities *)

\* data rows of an import whose Quantity cell is not positive
NonPositiveRows ==
    [ card_name : {""}, set_code : {"AAA"}, card_number : {"1"},
      quantity : {"0"}, foil : {"", "Foil"}, language : {""} ]

\* C22: every stored entry has quantity >= 1, and a request that carries a
\* non-positive quantity leaves the store as it was: here the import of a row
\* whose Quantity cell is 0 into a container of the caller
C22_QuantityAtLeastOne ==
    /\ \A e \in entries : e.quantity >= 1
    /\ \A container_id \in {1, 2} :
           \A row \in NonPositiveRows :
               \A o \in ImportOutcomes(entries, next_id, containers, Language,
                                       container_id, << row >>) :
                   o.entries = entries

\* what holds of the requests the add, update and move handlers validate, and
\* of imports with positive quantities: every stored entry has quantity >= 1
StoredQuantityPositive == \A e \in entries : e.quantity >= 1


----------------------------------------------------------------------------
(* The container hierarchy *)

\* the walk of get_container_path from a container, cut after one step more
\* than there are containers: a walk that long has met a container twice
Walk(c) == PathUpTo(containers, c.id, Cardinality(containers) + 1)

\* C23: the hierarchy is a forest. From every container the walk along
\* parent_id reaches a root without meeting a container twice
C23_Forest ==
    \A c \in containers : Len(Walk(c)) <= Cardinality(containers)

\* what update_container does reject: a container as its own parent
SelfParentRejected ==
    [][ (/\ request'.op = "update_container"
         /\ served' = served + 1
         /\ request'.parent_id = request'.container_id)
        => response'.status \in {400, 404} /\ containers' = containers ]_vars

\* C24: the stored depth of every container is the number of its ancestors
\* and is at most 10
C24_DepthBound ==
    \A c \in containers :
        /\ c.depth <= MaxDepth
        /\ c.depth = Len(Walk(c)) - 1

\* the depth a write stores on the container it writes is its parent's stored
\* depth + 1, or 0 for a root: true of create_container
CreatedDepthFromParent ==
    [][ (/\ request'.op = "create_container"
         /\ served' = served + 1
         /\ response'.status = 200)
        => \E c \in containers' :
               /\ c.id = response'.id
               /\ c \notin containers
               /\ IF c.parent_id = NULL THEN c.depth = 0
                  ELSE \E q \in containers : q.id = c.parent_id /\ c.depth = q.depth + 1 ]_vars

\* C25: a delete of a container that some container has as parent is answered
\* with a client error and changes nothing; a delete that succeeds removes the
\* container and every entry whose container_id it is; no entry references a
\* container that does not exist
C25_DeleteCascades ==
    [][ (request'.op = "delete_container" /\ served' = served + 1)
        => LET id == request'.container_id
           IN  /\ (\E c \in containers : c.parent_id = id)
                  => /\ response'.status \in {400, 404}
                     /\ containers' = containers
                     /\ entries' = entries
               /\ response'.status = 200
                  => /\ containers' = { c \in containers : c.id # id }
                     /\ entries' = { e \in entries : e.container_id # id }
               /\ response'.status # 200
                  => containers' = containers /\ entries' = entries
               /\ \A e \in entries' : \E c \in containers' : c.id = e.container_id ]_vars

\* C25 witness: binder 1 was deleted and entry 1, which lay in it, is gone
C25_Witness ==
    /\ request.op = "delete_container"
    /\ request.container_id = 1
    /\ response.status = 200
    /\ AnyContainer(containers, 1) = {}
    /\ ~ \E e \in entries : e.id = 1
    /\ \E e \in entries : e.id = 2


----------------------------------------------------------------------------
(* Moves *)

\* a move_collection_entry has just been answered 200
Moved == /\ served' = served + 1
         /\ request'.op = "move_collection_entry"
         /\ response'.status = 200

\* an update_collection_entry that names a container has just been answered 200
Recontained == /\ served' = served + 1
               /\ request'.op = "update_collection_entry"
               /\ request'.container_id # NULL
               /\ response'.status = 200

\* C26: after a move, by move_collection_entry or by update_collection_entry
\* with a container_id, the entry that holds the moved cards in the target
\* container carries the position that was stored on the source entry
C26_MovePreservesPosition ==
    [][ /\ Moved
           => \A src \in entries, tgt \in entries' :
                  (src.id = response'.source_entry_id /\ tgt.id = response'.target_entry_id)
                  => tgt.position = src.position
        /\ Recontained
           => \A src \in entries, tgt \in entries' :
                  (src.id = response'.id /\ tgt.id = response'.id)
                  => tgt.position = src.position ]_vars

\* the half that holds: update_collection_entry with a container_id leaves the
\* position of the entry as it was
UpdatePreservesPosition ==
    [][ Recontained
        => \A src \in entries, tgt \in entries' :
               (src.id = response'.id /\ tgt.id = response'.id)
               => (tgt.position = src.position /\ tgt.container_id = request'.container_id) ]_vars


----------------------------------------------------------------------------
(* The three readers of a position *)

\* the entries of a position were served by get_entries_at_position
PositionServed ==
    /\ request.op = "get_entries_at_position"
    /\ response.status = 200

\* the binder page of the container of the request with its fill-row setting
\* replaced
PageInMode(fill_row, page) ==
    LET c == CHOOSE x \in containers : x.id = request.container_id
    IN  BinderPage(entries, PageContainers(c.binder_columns, fill_row), Language,
                   request.container_id, page)

\* the filled slots of pages p .. total in fill-row mode, one page after the other
RECURSIVE FillPagesShown(_, _)
FillPagesShown(p, total) ==
    IF p > total
    THEN << >>
    ELSE SelectSeq(PageInMode(TRUE, p).slots, LAMBDA slot : ~ slot.is_empty)
         \o FillPagesShown(p + 1, total)

\* C27: for a position p of a binder, the entry of p's slot in
\* single-representative mode, the first fill-row slot of p and the first
\* entry that get_entries_at_position lists are one entry; the fill-row slots
\* of p are a prefix of that list; the slot's overflow_count (0 when absent)
\* + 1 is the length of the list
C27_ReadersAgree ==
    (PositionServed /\ request.container_id = 1)
    => LET pos == request.position
           list == response.entries
           slots_per_page == Len(PageInMode(FALSE, 1).slots)
           page == ((pos - 1) \div slots_per_page) + 1
           single == PageInMode(FALSE, page).slots[((pos - 1) % slots_per_page) + 1]
           fill == SelectSeq(FillPagesShown(1, PageInMode(TRUE, 1).total_pages),
                             LAMBDA slot : slot.position = pos)
       IN  /\ single.position = pos
           /\ single.entry_id = list[1].entry_id
           /\ Len(fill) >= 1
           /\ fill[1].entry_id = list[1].entry_id
           /\ Len(fill) <= Len(list)
           /\ \A i \in 1 .. Len(fill) : fill[i].entry_id = list[i].entry_id
           /\ (IF single.overflow_count = NULL THEN 0 ELSE single.overflow_count) + 1
              = Len(list)

\* C27 witness: five entries of position 1 were listed, one more than fill-row
\* mode shows, and the first of them is not the entry of the lowest id
C27_Witness ==
    /\ PositionServed
    /\ request.container_id = 1
    /\ request.position = 1
    /\ Len(response.entries) = 5
    /\ \E i \in 2 .. 5 : response.entries[i].entry_id < response.entries[1].entry_id


\* no language of the catalog is named English, in any case
NoEnglish == ~ \E l \in Language : Lower(l.name) = "english"

\* the stored entry of an id
EntryOf(id) == CHOOSE e \in entries : e.id = id

\* C28: without a language named English the entries of a position are
\* listed by release date ascending (a missing date or set row last) and then
\* by entry id
C28_NoEnglishRanksByDate ==
    (PositionServed /\ NoEnglish)
    => \A i, j \in 1 .. Len(response.entries) :
           i < j
           => LET a == EntryOf(response.entries[i].entry_id)
                  b == EntryOf(response.entries[j].entry_id)
              IN  \/ RankedDate(a) < RankedDate(b)
                  \/ RankedDate(a) = RankedDate(b) /\ a.id < b.id

\* with a language named English the list is in the order of the rank:
\* English first, then release date, then entry id
EnglishRanksByDate ==
    (PositionServed /\ ~ NoEnglish)
    => \A i, j \in 1 .. Len(response.entries) :
           i < j => RankBefore(Rank(EntryOf(response.entries[i].entry_id)),
                               Rank(EntryOf(response.entries[j].entry_id)))


----------------------------------------------------------------------------
(* move_collection_entry and quantities *)

\* the summed quantity of a set of entries
RECURSIVE SumQuantity(_)
SumQuantity(S) ==
    IF S = {} THEN 0
    ELSE LET e == CHOOSE x \in S : TRUE
         IN  e.quantity + SumQuantity(S \ {e})

\* the caller's entries of the exact variant of an entry in some containers
SameVariantIn(es, src, container_ids) ==
    { e \in es : /\ e.set_code = src.set_code
                 /\ e.card_number = src.card_number
                 /\ e.finish_id = src.finish_id
                 /\ e.language_id = src.language_id
                 /\ e.user_id = user
                 /\ e.container_id \in container_ids }

\* the quantity of the entry of an id, 0 when the store has none
QuantityOf(es, id) ==
    IF \E e \in es : e.id = id THEN (CHOOSE e \in es : e.id = id).quantity ELSE 0

\* C29: a move of quantity q of an entry of the caller fails and leaves every
\* entry as it was when q exceeds the entry's quantity, when the target is the
\* entry's container or when the caller owns no such target; otherwise the
\* summed quantity of the variant over the two containers stays, the target
\* entry gains q, and the source loses q and is deleted iff q is its quantity
C29_MoveConservesQuantity ==
    \A entry_id \in EntryIds, data \in MoveRequests :
        \A src \in { e \in entries : e.id = entry_id /\ e.user_id = user } :
            \A o \in MoveOutcomes(entries, next_id, containers, entry_id, data) :
                LET q == data.quantity
                    target == data.target_container_id
                    both == {src.container_id, target}
                IN  IF \/ q < 1
                       \/ q > src.quantity
                       \/ target = src.container_id
                       \/ ~ \E c \in containers : c.id = target /\ c.user_id = user
                    THEN o.response.status # 200 /\ o.entries = entries
                    ELSE /\ o.response.status = 200
                         /\ SumQuantity(SameVariantIn(o.entries, src, both))
                            = SumQuantity(SameVariantIn(entries, src, both))
                         /\ \E t \in o.entries :
                                /\ t.id = o.response.target_entry_id
                                /\ t.container_id = target
                                /\ t.quantity = QuantityOf(entries, t.id) + q
                         /\ QuantityOf(o.entries, src.id) = src.quantity - q
                         /\ (q = src.quantity) <=> ~ \E e \in o.entries : e.id = src.id
                         /\ \A e \in entries :
                                (e.id # src.id /\ e.id # o.response.target_entry_id)
                                => e \in o.entries

\* C29 witness: one of the two cards of an entry was moved: the source keeps
\* one card, the entry created in the target holds the other
C29_Witness ==
    /\ request.op = "move_collection_entry"
    /\ request.quantity = 1
    /\ response.status = 200
    /\ response.source_remaining_quantity = 1
    /\ response.target_quantity = 1
    /\ QuantityOf(entries, response.source_entry_id) = 1
    /\ QuantityOf(entries, response.target_entry_id) = 1
    /\ response.source_entry_id # response.target_entry_id


----------------------------------------------------------------------------
(* Requests of different names served side by side *)

\* both requests were answered 200 for cards of two names, neither of which
\* had a positioned entry in the binder when the request read the groups
DifferentNewNames ==
    /\ AllDone
    /\ \A w \in Workers : workers[w].status = 200 /\ ~ workers[w].had_group
    /\ workers[1].name # workers[2].name

\* C30: when two add requests of two different new card names into one binder
\* are served side by side, the two names do not end at one position
C30_ConcurrentDifferentNames ==
    DifferentNewNames =>
        \A a, b \in { x \in entries : x.container_id = 1 /\ x.position # NULL } :
            (CardName(a) = workers[1].name /\ CardName(b) = workers[2].name)
            => a.position # b.position

====
